---- MODULE Spec2Model ----
(***************************************************************************)
(* A TLA+ model of the gbr Game Boy emulator core: the CPU register file   *)
(* (cpu.rs), guest memory (memory.rs), the stack/jump/load/interrupt       *)
(* instruction handlers (instructions/*.rs), the clock (clock.rs) and the  *)
(* system loop with its interrupt dispatch (system.rs).                    *)
(*                                                                         *)
(* Widths are kept: u8 values live in 0..255 and u16 values in 0..65535.   *)
(* Rust's `+`/`-` on integers panic on overflow when the build has         *)
(* overflow checks (debug) and wrap otherwise (release); the build is the  *)
(* variable overflow_checks, chosen once in Init.                          *)
(***************************************************************************)
EXTENDS Integers, Sequences, FiniteSets, TLC

VARIABLES
    cpu,              \* Cpu { registers: Registers { a..l, af..hl, sp, pc, flags }, ime }
    mem,              \* Memory { block, oam_accessible, vram_accessible }
    clock,            \* Clock { m_cycles, dots }
    ppu,              \* Ppu { mode }
    status,           \* "running", or "panicked" once a Rust panic unwound the process
    overflow_checks,  \* TRUE: integer overflow panics (debug build); FALSE: it wraps
    rom,              \* the ROM image handed to System::new (one of RomImages)
    steps,            \* number of operations / loop iterations performed
    total_m_cycles,   \* machine cycles the CPU executed since reset (history)
    last              \* what the latest operation / loop iteration did (history)

vars == <<cpu, mem, clock, ppu, status, overflow_checks, rom, steps,
          total_m_cycles, last>>

---------------------------------------------------------------------------
(* Machine integers *)

U8 == 256
U16 == 65536

\* x & y and x | y on machine words, bit by bit
RECURSIVE BitAnd(_, _)
BitAnd(x, y) ==
    IF x = 0 \/ y = 0 THEN 0
    ELSE (x % 2) * (y % 2) + 2 * BitAnd(x \div 2, y \div 2)

RECURSIVE BitOr(_, _)
BitOr(x, y) ==
    IF x = 0 THEN y
    ELSE IF y = 0 THEN x
    ELSE (IF x % 2 = 1 \/ y % 2 = 1 THEN 1 ELSE 0) + 2 * BitOr(x \div 2, y \div 2)

\* (value >> n) & 1
Bit(value, n) == (value \div (2 ^ n)) % 2

\* bool as u8
B2N(b) == IF b THEN 1 ELSE 0

\* u16 `x + y` and `x - y`: the wrapped value, and whether it overflowed
Add16(x, y) == [val |-> (x + y) % U16, ovf |-> x + y >= U16]
Sub16(x, y) == [val |-> (x - y + U16) % U16, ovf |-> x < y]

\* u8 `x + y`
Add8(x, y) == [val |-> (x + y) % U8, ovf |-> x + y >= U8]

\* u8 `x - y`
Sub8(x, y) == [val |-> (x - y + U8) % U8, ovf |-> x < y]

---------------------------------------------------------------------------
(* lib.rs *)

\* extract_bytes(value) -> (msb, lsb)
extract_bytes(value) == [msb |-> value \div 256, lsb |-> value % 256]

---------------------------------------------------------------------------
(* cpu.rs: Flags *)

\* Flags::set(value)
Flags_set(value) ==
    [zero        |-> Bit(value, 7) = 1,
     subtraction |-> Bit(value, 6) = 1,
     half_carry  |-> Bit(value, 5) = 1,
     carry       |-> Bit(value, 4) = 1]

\* Flags::default()
Flags_default ==
    [zero |-> TRUE, subtraction |-> FALSE, half_carry |-> TRUE, carry |-> TRUE]

\* impl Into<u8> for Flags: the carry flag is or-ed in at bit 7 (`<< 7`), not bit 4
Flags_into_u8(flags) ==
    BitOr(BitOr(BitOr(B2N(flags.zero) * 128, B2N(flags.subtraction) * 64),
                B2N(flags.half_carry) * 32),
          B2N(flags.carry) * 128)

\* Flags::clear()
Flags_clear ==
    [zero |-> FALSE, subtraction |-> FALSE, half_carry |-> FALSE, carry |-> FALSE]

---------------------------------------------------------------------------
(* cpu.rs: Registers *)

R8 == {"A", "B", "C", "D", "E", "H", "L"}
R16 == {"AF", "BC", "DE", "HL", "SP", "PC"}

\* The mutation of Registers::default() that leaves AF at 0x0100
Registers_default_af_0100 ==
    [a |-> 1, b |-> 0, c |-> 19, d |-> 0, e |-> 216, h |-> 1, l |-> 77,
     af |-> 256, bc |-> 19, de |-> 216, hl |-> 333, sp |-> 65534, pc |-> 256,
     flags |-> Flags_default]

\* Registers::default()
Registers_default ==
    [a |-> 1, b |-> 0, c |-> 19, d |-> 0, e |-> 216, h |-> 1, l |-> 77,
     af |-> 432, bc |-> 19, de |-> 216, hl |-> 333, sp |-> 65534, pc |-> 256,
     flags |-> Flags_default]

\* Registers::get_r8
get_r8(registers, register) ==
    CASE register = "A" -> registers.a
      [] register = "B" -> registers.b
      [] register = "C" -> registers.c
      [] register = "D" -> registers.d
      [] register = "E" -> registers.e
      [] register = "H" -> registers.h
      [] register = "L" -> registers.l

\* Registers::set_r8: the 8-bit field, and the parent pair with the other half masked in.
\* (self.xx & 0x00ff) | (value << 8) and self.xx & 0xff00 | value; for L the mask is 0x0ff0.
set_r8(registers, register, value) ==
    CASE register = "A" ->
           [registers EXCEPT !.a = value,
                             !.af = BitOr(BitAnd(@, 255), value * 256)]
      [] register = "B" ->
           [registers EXCEPT !.b = value,
                             !.bc = BitOr(BitAnd(@, 255), value * 256)]
      [] register = "C" ->
           [registers EXCEPT !.c = value,
                             !.bc = BitOr(BitAnd(@, 65280), value)]
      [] register = "D" ->
           [registers EXCEPT !.d = value,
                             !.de = BitOr(BitAnd(@, 255), value * 256)]
      [] register = "E" ->
           [registers EXCEPT !.e = value,
                             !.de = BitOr(BitAnd(@, 65280), value)]
      [] register = "H" ->
           [registers EXCEPT !.h = value,
                             !.hl = BitOr(BitAnd(@, 255), value * 256)]
      [] register = "L" ->
           [registers EXCEPT !.l = value,
                             !.hl = BitOr(BitAnd(@, 4080), value)]

\* Registers::get_r16
get_r16(registers, register) ==
    CASE register = "AF" -> registers.af
      [] register = "BC" -> registers.bc
      [] register = "DE" -> registers.de
      [] register = "HL" -> registers.hl
      [] register = "SP" -> registers.sp
      [] register = "PC" -> registers.pc

\* Registers::set_r16: the pair, and both 8-bit halves (for AF: a and the four flags)
set_r16(registers, register, value) ==
    LET bytes == extract_bytes(value) IN
    CASE register = "AF" ->
           [registers EXCEPT !.af = value, !.a = bytes.msb,
                             !.flags = Flags_set(bytes.lsb)]
      [] register = "BC" ->
           [registers EXCEPT !.bc = value, !.b = bytes.msb, !.c = bytes.lsb]
      [] register = "DE" ->
           [registers EXCEPT !.de = value, !.d = bytes.msb, !.e = bytes.lsb]
      [] register = "HL" ->
           [registers EXCEPT !.hl = value, !.h = bytes.msb, !.l = bytes.lsb]
      [] register = "SP" -> [registers EXCEPT !.sp = value]
      [] register = "PC" -> [registers EXCEPT !.pc = value]

\* Cpu::default()
Cpu_default == [registers |-> Registers_default, ime |-> FALSE]

\* Cpu::cc(condition)
cc(c, condition) ==
    CASE condition = "NotZero"  -> c.registers.flags.zero = FALSE
      [] condition = "Zero"     -> c.registers.flags.zero = TRUE
      [] condition = "NotCarry" -> c.registers.flags.carry = FALSE
      [] condition = "Carry"    -> c.registers.flags.carry = TRUE

---------------------------------------------------------------------------
(* ROM images: the `game: Vec<u8>` given to System::new.  An image is 32 KiB *)
(* of bytes; each one below is a listing of bytes placed over a background.  *)

Place(base, bytes) == [a \in base..(base + Len(bytes) - 1) |-> bytes[a - base + 1]]

\* Opcode bytes used in the listings (LR35902 encoding)
OP_NOP == 0
OP_LD_A_N8 == 62
OP_CALL_N16 == 205
OP_RETI == 217
OP_LD_N16_A == 234
OP_DI == 243
OP_EI == 251

\* The bytes a listing places, by image
Listing(image) ==
    CASE image = "ei_reti" ->
           \* 0100: EI          0040: RETI
           Place(256, <<OP_EI>>) @@ Place(64, <<OP_RETI>>)
      [] image = "ie_stat" ->
           \* 0100: LD [FFFF],A (A = 01 at boot); EI      0048: DI
           Place(256, <<OP_LD_N16_A, 255, 255, OP_EI>>) @@ Place(72, <<OP_DI>>)
      [] image = "ie_mask" ->
           \* 0100: LD A,1F; LD [FFFF],A; EI
           Place(256, <<OP_LD_A_N8, 31, OP_LD_N16_A, 255, 255, OP_EI>>)
      [] image = "if_clear" ->
           \* 0100: LD A,00; LD [FF0F],A; EI      0040: DI
           Place(256, <<OP_LD_A_N8, 0, OP_LD_N16_A, 15, 255, OP_EI>>)
             @@ Place(64, <<OP_DI>>)
      [] image = "ie_joypad" ->
           \* 0100: LD A,04; LD [FFFF],A; EI      0060: RETI
           Place(256, <<OP_LD_A_N8, 4, OP_LD_N16_A, 255, 255, OP_EI>>)
             @@ Place(96, <<OP_RETI>>)
      [] image = "call_chain" ->
           \* 0100: CALL 0150      0150: CALL 0160      0160: CALL 0170      0170: EI
           Place(256, <<OP_CALL_N16, 80, 1>>) @@ Place(336, <<OP_CALL_N16, 96, 1>>)
             @@ Place(352, <<OP_CALL_N16, 112, 1>>) @@ Place(368, <<OP_EI>>)
      [] image = "call_high" ->
           \* 0100: CALL 8000
           Place(256, <<OP_CALL_N16, 0, 128>>)
      [] image = "ei_nop_di" ->
           \* 0100: LD A,08; LD [FFFF],A; EI; NOP; DI
           Place(256, <<OP_LD_A_N8, 8, OP_LD_N16_A, 255, 255, OP_EI, OP_NOP, OP_DI>>)
      [] image = "reti_boot" ->
           \* 0100: RETI
           Place(256, <<OP_RETI>>)
      [] OTHER -> <<>>

\* Byte `addr` of the image.  "ramp" is a data image with no zero byte outside
\* the cartridge header's type / ROM size / RAM size bytes (0147..0149); every
\* other image is zero where its listing places nothing.
Placed(listing, addr) == IF addr \in DOMAIN listing THEN listing[addr] ELSE 0

RomByte(image, addr) ==
    IF image = "ramp"
    THEN IF addr \in 327..329 THEN 0 ELSE (addr % 255) + 1
    ELSE Placed(Listing(image), addr)

\* Images whose code uses only the instructions modelled below
ProgramImages ==
    {"zeros", "ei_reti", "ie_stat", "ie_mask", "if_clear", "ie_joypad",
     "call_chain", "call_high", "reti_boot", "ei_nop_di"}

\* Images used where the ROM is only read as data
DataImages == {"zeros", "ramp"}

---------------------------------------------------------------------------
(* memory.rs *)

\* registers
DIV == 65284
TIMA == 65285
TMA == 65286
TAC == 65287
\* IF (a TLA+ keyword, hence the prefix)
REG_IF == 65295
LCDC == 65344
STAT == 65345
LY == 65348
IE == 65535

\* regions
ROM_BANK_0_START == 0
ROM_BANK_0_END == 16383
ROM_BANK_1_START == 16384
ROM_BANK_1_END == 32767
INTERRUPT_FLAG == 65295
INTERRUPT_ENABLE_REGISTER == 65535

\* Memory::default(): the byte each mem.write(REG, value) leaves in the zeroed block
Memory_default_byte(addr) ==
    CASE addr = 65280 -> 207   \* JOYP
      [] addr = 65282 -> 126   \* SC
      [] addr = DIV   -> 24
      [] addr = TAC   -> 248
      [] addr = REG_IF -> 225
      [] addr = 65296 -> 128   \* NR10
      [] addr = 65297 -> 191   \* NR11
      [] addr = 65298 -> 243   \* NR12
      [] addr = 65299 -> 255   \* NR13
      [] addr = 65300 -> 191   \* NR14
      [] addr = 65302 -> 63    \* NR21
      [] addr = 65304 -> 255   \* NR23
      [] addr = 65305 -> 191   \* NR24
      [] addr = 65306 -> 127   \* NR30
      [] addr = 65307 -> 255   \* NR31
      [] addr = 65308 -> 159   \* NR32
      [] addr = 65309 -> 255   \* NR33
      [] addr = 65310 -> 191   \* NR34
      [] addr = 65312 -> 255   \* NR41
      [] addr = 65314 -> 255   \* NR43
      [] addr = 65315 -> 191   \* NR44
      [] addr = 65316 -> 119   \* NR50
      [] addr = 65317 -> 243   \* NR51
      [] addr = 65318 -> 241   \* NR52
      [] addr = LCDC  -> 145
      [] addr = STAT  -> 129
      [] addr = 65350 -> 255   \* DMA
      [] addr = 65351 -> 252   \* BGP
      [] OTHER -> 0

\* Memory::setup_rom(rom, RomOnly) over Memory::default(): the two copy_from_slice
\* calls copy the half-open ranges [ROM_BANK_0_START, ROM_BANK_0_END) and
\* [ROM_BANK_1_START, ROM_BANK_1_END)
setup_rom(image, addr) ==
    IF \/ (ROM_BANK_0_START <= addr /\ addr < ROM_BANK_0_END)
       \/ (ROM_BANK_1_START <= addr /\ addr < ROM_BANK_1_END)
    THEN RomByte(image, addr)
    ELSE Memory_default_byte(addr)

\* mem.block is the 64 KiB array, held as the bytes that differ from the
\* loaded contents setup_rom(rom, _): block[addr] is Memory_read(m, addr).
\* Memory::read
Memory_read(m, addr) ==
    IF addr \in DOMAIN m.block THEN m.block[addr] ELSE setup_rom(rom, addr)

\* Memory::write: self.block[addr] = value, for every addr
Memory_write(m, addr, value) ==
    [m EXCEPT !.block =
        IF value = setup_rom(rom, addr)
        THEN [x \in (DOMAIN @) \ {addr} |-> @[x]]
        ELSE [x \in (DOMAIN @) \cup {addr} |-> IF x = addr THEN value ELSE @[x]]]

\* Memory after construction; the accessibility flags start true (test.rs setup_memory)
Memory_new == [block |-> <<>>, oam_accessible |-> TRUE, vram_accessible |-> TRUE]

\* Memory::get_interrupt_registers: &self.block[INTERRUPT_ENABLE_REGISTER]
get_interrupt_registers(m) == Memory_read(m, INTERRUPT_ENABLE_REGISTER)

\* Memory::set_interrupt_registers
set_interrupt_registers(m, value) == Memory_write(m, INTERRUPT_ENABLE_REGISTER, value)

\* Memory::get_interrupt_flag
get_interrupt_flag(m) == Memory_read(m, INTERRUPT_FLAG)

\* Memory::inc_scanline, its `if self.read(LY) == 153 { self.write(LY, 0) }`
inc_scanline_wrap(m, ovf) ==
    [mem |-> IF Memory_read(m, LY) = 153 THEN Memory_write(m, LY, 0) ELSE m,
     ovf |-> ovf]

\* Memory::inc_scanline; `ly + 1` is a u8 addition
inc_scanline(m) ==
    inc_scanline_wrap(Memory_write(m, LY, Add8(Memory_read(m, LY), 1).val),
                      Add8(Memory_read(m, LY), 1).ovf)

\* memory.rs interrupts::TIMER
TIMER == 2

\* Memory::inc_tima, its `if tima == 0xff` block:
\* self.block[IE] = interrupts::TIMER; self.block[TIMA] = self.read(TMA)
inc_tima_reload(m) ==
    IF Memory_read(m, TIMA) = 255
    THEN Memory_write(Memory_write(m, IE, TIMER), TIMA, Memory_read(m, TMA))
    ELSE m

\* Memory::inc_tima, its last statement: self.block[TIMA] += 1, a u8 addition
inc_tima_add(m) ==
    [mem |-> Memory_write(m, TIMA, Add8(Memory_read(m, TIMA), 1).val),
     ovf |-> Add8(Memory_read(m, TIMA), 1).ovf]

\* Memory::inc_tima
inc_tima(m) == inc_tima_add(inc_tima_reload(m))

\* Memory::lcd_control().lcd_ppu_enable: (value & 0x80) >> 7 == 1
lcd_ppu_enable(m) == Bit(Memory_read(m, LCDC), 7) = 1

\* Memory::rom(): &self.block[ROM_BANK_0_START..ROM_BANK_1_END], as its length
\* and its bytes
rom_len == ROM_BANK_1_END - ROM_BANK_0_START
rom_byte(m, i) == Memory_read(m, ROM_BANK_0_START + i)

---------------------------------------------------------------------------
(* cartridge.rs *)

CARTRIDGE_TYPE == 327
ROM_SIZE == 328
RAM_SIZE == 329

\* The bytes CartridgeType::try_from, RomSize::try_from and RamSize::try_from
\* map to Ok; every other byte is InvalidHardware / InvalidRomSize / InvalidRamSize
CartridgeType_bytes ==
    {0, 1, 2, 3, 5, 6, 8, 9, 11, 12, 13, 15, 16, 17, 18, 19, 25, 26, 27, 28, 29, 30,
     32, 34, 252, 253, 254, 255}
RomSize_bytes == (0..8) \cup {82, 83, 84}
RamSize_bytes == 0..5

\* What Cartridge::new leaves: Ok or Err(error(byte)) or a panic, and whether
\* mem.setup_rom copied the ROM
Parsed(outcome, byte, copied) == [outcome |-> outcome, byte |-> byte, copied |-> copied]

\* Cartridge::new(rom, mem) on a rom of `len` bytes with the three header bytes:
\* rom[CARTRIDGE_TYPE], rom[ROM_SIZE], rom[RAM_SIZE] are unchecked indexes, `?`
\* returns the first failed conversion, and setup_rom slices both banks out of
\* rom when the type is RomOnly
Cartridge_new(len, cartridge_type, rom_size, ram_size) ==
    IF len <= CARTRIDGE_TYPE THEN Parsed("panic", 0, FALSE)
    ELSE IF cartridge_type \notin CartridgeType_bytes
    THEN Parsed("InvalidHardware", cartridge_type, FALSE)
    ELSE IF len <= ROM_SIZE THEN Parsed("panic", 0, FALSE)
    ELSE IF rom_size \notin RomSize_bytes THEN Parsed("InvalidRomSize", rom_size, FALSE)
    ELSE IF len <= RAM_SIZE THEN Parsed("panic", 0, FALSE)
    ELSE IF ram_size \notin RamSize_bytes THEN Parsed("InvalidRamSize", ram_size, FALSE)
    ELSE IF cartridge_type # 0 THEN Parsed("Ok", 0, FALSE)
    ELSE IF len < ROM_BANK_1_END THEN Parsed("panic", 0, FALSE)
    ELSE Parsed("Ok", 0, TRUE)

---------------------------------------------------------------------------
(* instructions/*.rs: an instruction handler yields the cpu and memory it    *)
(* leaves, the Instruction { mnemonic, bytes, cycles } it returns, and       *)
(* whether one of its integer additions / subtractions overflowed.           *)

Result(c, m, mnemonic, bytes, cycles, ovf) ==
    [cpu |-> c, mem |-> m, mnemonic |-> mnemonic, bytes |-> bytes,
     cycles |-> cycles, ovf |-> ovf]

\* cpu.registers.pc += n
pc_add(c, n) == [c EXCEPT !.registers.pc = Add16(@, n).val]
pc_ovf(c, n) == Add16(c.registers.pc, n).ovf

\* The cpu and memory a helper leaves, and whether it overflowed
Step(c, m, ovf) == [cpu |-> c, mem |-> m, ovf |-> ovf]

\* The tail of a handler that ran helper step p:
\* cpu.registers.pc += n; Ok(Instruction { mnemonic, bytes, cycles })
Return(p, n, mnemonic, bytes, cycles) ==
    Result(pc_add(p.cpu, n), p.mem, mnemonic, bytes, cycles,
           p.ovf \/ pc_ovf(p.cpu, n))

(* instructions/stack.rs *)

\* push_stack, one byte: set_r16(SP, sp - 1); mem.write(sp, value)
push_byte(value, p) ==
    Step([p.cpu EXCEPT !.registers = set_r16(@, "SP", Sub16(@.sp, 1).val)],
         Memory_write(p.mem, Sub16(p.cpu.registers.sp, 1).val, value),
         p.ovf \/ Sub16(p.cpu.registers.sp, 1).ovf)

\* The mutation of push_stack that pushes the low byte first
push_stack_low_first(n16, c, m) ==
    push_byte(BitAnd(n16, 65280) \div 256,
              push_byte(BitAnd(n16, 255), Step(c, m, FALSE)))

\* push_stack(n16, cpu, mem): the high byte, then the low byte
push_stack(n16, c, m) ==
    push_byte(BitAnd(n16, 255),
              push_byte(BitAnd(n16, 65280) \div 256, Step(c, m, FALSE)))

\* pop_stack: n16 |= low; set_r16(SP, sp + 1)
pop_low(c, m) ==
    [cpu |-> [c EXCEPT !.registers = set_r16(@, "SP", Add16(@.sp, 1).val)],
     mem |-> m,
     ovf |-> Add16(c.registers.sp, 1).ovf,
     n16 |-> BitOr(0, Memory_read(m, c.registers.sp))]

\* pop_stack: n16 |= high << 8; set_r16(SP, sp + 1)
pop_high(p) ==
    [cpu |-> [p.cpu EXCEPT !.registers = set_r16(@, "SP", Add16(@.sp, 1).val)],
     mem |-> p.mem,
     ovf |-> p.ovf \/ Add16(p.cpu.registers.sp, 1).ovf,
     n16 |-> BitOr(p.n16, Memory_read(p.mem, p.cpu.registers.sp) * 256)]

\* pop_stack: set_r16(r16, n16)
pop_set(r16, p) ==
    Step([p.cpu EXCEPT !.registers = set_r16(@, r16, p.n16)], p.mem, p.ovf)

\* pop_stack(r16, cpu, mem): the low byte, then the high byte, then the register
pop_stack(r16, c, m) == pop_set(r16, pop_high(pop_low(c, m)))

\* load_sp_n16: LD SP,n16
load_sp_n16(n16, c, m) ==
    Result(pc_add([c EXCEPT !.registers = set_r16(@, "SP", n16)], 3), m,
           "LD", 3, 3, pc_ovf(c, 3))

\* pop_r16: POP r16
pop_r16(r16, c, m) == Return(pop_stack(r16, c, m), 1, "POP", 1, 3)

\* push_r16: PUSH r16
push_r16(r16, c, m) ==
    Return(push_stack(get_r16(c.registers, r16), c, m), 1, "PUSH", 1, 4)

\* push_af: af = get_r16(AF) with the four flags or-ed in at bits 7, 6, 5, 4
push_af(c, m) ==
    Return(push_stack(BitOr(BitOr(BitOr(BitOr(get_r16(c.registers, "AF"),
                                              B2N(c.registers.flags.zero) * 128),
                                        B2N(c.registers.flags.subtraction) * 64),
                                  B2N(c.registers.flags.half_carry) * 32),
                            B2N(c.registers.flags.carry) * 16),
                      c, m),
           1, "PUSH", 1, 4)

\* pop_af, the flags: low >> 7 == 1, low >> 6 == 1, low >> 5 == 1, low >> 4 == 1
pop_af_flags(low) ==
    [zero        |-> low \div 128 = 1,
     subtraction |-> low \div 64 = 1,
     half_carry  |-> low \div 32 = 1,
     carry       |-> low \div 16 = 1]

\* pop_af: the flags from the byte at SP, SP + 1, A from the byte at SP, SP + 1
pop_af(c, m) ==
    Return(Step([c EXCEPT !.registers =
                    set_r16(set_r8(set_r16([@ EXCEPT !.flags =
                                               pop_af_flags(Memory_read(m, c.registers.sp))],
                                           "SP", Add16(@.sp, 1).val),
                                   "A", Memory_read(m, Add16(@.sp, 1).val)),
                            "SP", Add16(Add16(@.sp, 1).val, 1).val)],
                m,
                Add16(c.registers.sp, 1).ovf \/ Add16(Add16(c.registers.sp, 1).val, 1).ovf),
           1, "POP", 1, 3)

(* instructions/jumps.rs *)

\* call_n16 after its push_stack (step p): cpu.registers.pc = n16; Ok(CALL, 3, 6)
call_jump(n16, p, ovf) ==
    Result([p.cpu EXCEPT !.registers.pc = n16], p.mem, "CALL", 3, 6, ovf \/ p.ovf)

\* call_n16: push_stack(pc + 3, cpu, mem), then pc = n16
call_n16(n16, c, m) ==
    call_jump(n16, push_stack(Add16(c.registers.pc, 3).val, c, m),
              Add16(c.registers.pc, 3).ovf)

\* The mutation of call_cc_n16 that calls whatever the condition
call_cc_n16_always(n16, condition, c, m) == call_n16(n16, c, m)

\* call_cc_n16: the body of call_n16 when cpu.cc(condition) holds;
\* otherwise pc += 3; Ok(CALL, 3, 3)
call_cc_n16(n16, condition, c, m) ==
    IF cc(c, condition)
    THEN call_n16(n16, c, m)
    ELSE Return(Step(c, m, FALSE), 3, "CALL", 3, 3)

\* jr_n16: offset = e8 as i8; set_r16(PC, pc.wrapping_add(offset as u16));
\* `offset as u16` sign-extends, and wrapping_add never overflows
jr_n16(e8, c, m) ==
    Result([c EXCEPT !.registers =
                set_r16(@, "PC", (@.pc + (IF e8 >= 128 THEN e8 + 65280 ELSE e8)) % U16)],
           m, "JR", 2, 3, FALSE)

\* jr_cc_n16: the body of jr_n16 when cpu.cc(condition) holds;
\* otherwise pc += 2; Ok(JR, 2, 2)
jr_cc_n16(e8, condition, c, m) ==
    IF cc(c, condition)
    THEN jr_n16(e8, c, m)
    ELSE Return(Step(c, m, FALSE), 2, "JR", 2, 2)

\* ret: pop_stack(PC), pc += 1
ret(c, m) == Return(pop_stack("PC", c, m), 1, "RET", 1, 4)

\* reti: pop_stack(PC), pc += 1
reti(c, m) == Return(pop_stack("PC", c, m), 1, "RETI", 1, 4)

\* ret_cc: pop_stack(PC), pc += 1, Ok(RET, 1, 5) when cpu.cc(condition) holds;
\* otherwise pc += 1; Ok(RET, 1, 2)
ret_cc(condition, c, m) ==
    IF cc(c, condition)
    THEN Return(pop_stack("PC", c, m), 1, "RET", 1, 5)
    ELSE Return(Step(c, m, FALSE), 1, "RET", 1, 2)

(* instructions/interrupts.rs *)

\* di: ime = false, pc += 1
di(c, m) == Result(pc_add([c EXCEPT !.ime = FALSE], 1), m, "DI", 1, 1, pc_ovf(c, 1))

\* ei: pc += 1 (the handler leaves ime alone)
ei(c, m) == Result(pc_add(c, 1), m, "EI", 1, 1, pc_ovf(c, 1))

(* instructions/misc.rs *)

\* nop: touches nothing, the program counter included
nop(c, m) == Result(c, m, "NOP", 1, 1, FALSE)

\* daa: touches nothing, the program counter included
daa(c, m) == Result(c, m, "DAA", 1, 1, FALSE)

(* instructions/load.rs *)

\* ld_r8_hl: LD [HL],r8; mem.write(hl, r8); pc += 2
ld_r8_hl(r8, c, m) ==
    Result(pc_add(c, 2), Memory_write(m, c.registers.hl, get_r8(c.registers, r8)),
           "LD", 2, 3, pc_ovf(c, 2))

\* ld_hl_r8: LD r8,[HL]; set_r8(r8, mem.read(hl)); pc += 2
ld_hl_r8(r8, c, m) ==
    Result(pc_add([c EXCEPT !.registers = set_r8(@, r8, Memory_read(m, c.registers.hl))], 2),
           m, "LD", 2, 3, pc_ovf(c, 2))

\* ld_r8_n8: LD r8,n8
ld_r8_n8(r8, n8, c, m) ==
    Result(pc_add([c EXCEPT !.registers = set_r8(@, r8, n8)], 2), m,
           "LD", 2, 2, pc_ovf(c, 2))

\* ld_r16_n16: LD r16,n16
ld_r16_n16(r16, n16, c, m) ==
    Result(pc_add([c EXCEPT !.registers = set_r16(@, r16, n16)], 3), m,
           "LD", 3, 3, pc_ovf(c, 3))

\* ld_immed_n16_a: LD A,[n16]
ld_immed_n16_a(n16, c, m) ==
    Result(pc_add([c EXCEPT !.registers = set_r8(@, "A", Memory_read(m, n16))], 3), m,
           "LD", 3, 4, pc_ovf(c, 3))

\* ld_a_immed_n16: LD [n16],A
ld_a_immed_n16(n16, c, m) ==
    Result(pc_add(c, 3), Memory_write(m, n16, c.registers.a),
           "LD", 3, 4, pc_ovf(c, 3))

\* The range both LDH handlers test n16 against: (0xff00..=0xfff)
ldh_range == 65280..4095

\* ldh_a_immed_n16: LDH A,[n16]
ldh_a_immed_n16(n16, c, m) ==
    Return(Step(IF n16 \in ldh_range
                THEN [c EXCEPT !.registers =
                         [set_r8(@, "A", Memory_read(m, n16)) EXCEPT
                            !.a = Memory_read(m, n16)]]
                ELSE c,
                m, FALSE),
           2, "LDH", 2, 3)

\* ldh_immed_n16_a: LDH [n16],A
ldh_immed_n16_a(n16, c, m) ==
    Return(Step(c, IF n16 \in ldh_range THEN Memory_write(m, n16, c.registers.a) ELSE m,
                FALSE),
           2, "LDH", 2, 3)

(* instructions/arithmetic_8bit.rs *)

\* add_8bit(a, b, carry_flag) -> (sum, flags); carry_flag is 0 for None
add_8bit(a, b, carry_flag) ==
    LET b1 == Add8(b, carry_flag)
        half_carry == BitAnd(BitAnd(a, 15) + BitAnd(b1.val, 15), 16) = 16
        sum == Add8(a, b1.val)
        flags == BitOr(BitOr(B2N(sum.val = 0) * 128, B2N(half_carry) * 32),
                       B2N(sum.ovf) * 16)
    IN [sum |-> sum.val, flags |-> flags, ovf |-> b1.ovf]

\* sub_8bit, from `b - carry` (b1) on: sum = a.overflowing_sub(b - carry).0;
\* carry = b >= sum; flags = Z << 7 | 1 << 6 | H << 5 | C << 4
sub_8bit_flags(a, b, b1, half_carry) ==
    [sum |-> Sub8(a, b1.val).val,
     flags |-> BitOr(BitOr(BitOr(B2N(Sub8(a, b1.val).val = 0) * 128, 64),
                           B2N(half_carry) * 32),
                     B2N(b >= Sub8(a, b1.val).val) * 16),
     ovf |-> b1.ovf]

\* sub_8bit(a, b, carry_flag): half_carry = (a as i16 & 0x0f) - (b as i16 & 0x0f) < 0
sub_8bit(a, b, carry_flag) ==
    sub_8bit_flags(a, b, Sub8(b, carry_flag), BitAnd(a, 15) - BitAnd(b, 15) < 0)

\* adc_a_r8: ADC A,r8; the sum is stored in registers.a directly
adc_a_r8(r8, c, m) ==
    LET r == add_8bit(c.registers.a, get_r8(c.registers, r8),
                      B2N(c.registers.flags.carry))
        c1 == [c EXCEPT !.registers.a = r.sum,
                        !.registers.flags = Flags_set(r.flags)]
    IN Result(pc_add(c1, 1), m, "ADC", 1, 1, r.ovf \/ pc_ovf(c1, 1))

\* The tail of the ALU handlers on a register, for the (sum, flags) pair r:
\* cpu.registers.set_r8(r8, sum); cpu.registers.flags.set(flags)
alu_set_r8(r, r8, c, m) ==
    Step([c EXCEPT !.registers = [set_r8(@, r8, r.sum) EXCEPT !.flags = Flags_set(r.flags)]],
         m, r.ovf)

\* add_a_r8: ADD A,r8
add_a_r8(r8, c, m) ==
    Return(alu_set_r8(add_8bit(c.registers.a, get_r8(c.registers, r8), 0), "A", c, m),
           1, "ADD", 1, 1)

\* add_a_n8: ADD A,n8; pc += 1; Ok(ADD, bytes 1, cycles 2)
add_a_n8(n8, c, m) ==
    Return(alu_set_r8(add_8bit(c.registers.a, n8, 0), "A", c, m), 1, "ADD", 1, 2)

\* sub_a_r8: SUB A,r8
sub_a_r8(r8, c, m) ==
    Return(alu_set_r8(sub_8bit(c.registers.a, get_r8(c.registers, r8), 0), "A", c, m),
           1, "SUB", 1, 1)

\* sbc_a_r8: SBC A,r8
sbc_a_r8(r8, c, m) ==
    Return(alu_set_r8(sub_8bit(c.registers.a, get_r8(c.registers, r8),
                               B2N(c.registers.flags.carry)), "A", c, m),
           1, "SBC", 1, 1)

\* The tail of the CP handlers, for the (sum, flags) pair r: cpu.registers.flags.set(flags)
alu_set_flags(r, c, m) ==
    Step([c EXCEPT !.registers.flags = Flags_set(r.flags)], m, r.ovf)

\* cp_a_r8: CP A,r8
cp_a_r8(r8, c, m) ==
    Return(alu_set_flags(sub_8bit(c.registers.a, get_r8(c.registers, r8), 0), c, m),
           1, "CP", 1, 1)

\* inc_r8: INC r8
inc_r8(r8, c, m) ==
    Return(alu_set_r8(add_8bit(get_r8(c.registers, r8), 1, 0), r8, c, m),
           1, "INC", 1, 1)

\* dec_r8: DEC r8
dec_r8(r8, c, m) ==
    Return(alu_set_r8(sub_8bit(get_r8(c.registers, r8), 1, 0), r8, c, m),
           1, "DEC", 1, 1)

\* The tail of INC [HL] and DEC [HL], for the (sum, flags) pair r:
\* mem.write(hl as usize, sum); cpu.registers.flags.set(flags)
alu_set_hl(r, c, m) ==
    Step([c EXCEPT !.registers.flags = Flags_set(r.flags)],
         Memory_write(m, c.registers.hl, r.sum), r.ovf)

\* inc_hl: INC [HL]
inc_hl(c, m) ==
    Return(alu_set_hl(add_8bit(Memory_read(m, c.registers.hl), 1, 0), c, m),
           1, "INC", 1, 1)

\* dec_hl: DEC [HL]
dec_hl(c, m) ==
    Return(alu_set_hl(sub_8bit(Memory_read(m, c.registers.hl), 1, 0), c, m),
           1, "DEC", 1, 1)

(* instructions/bitshift.rs *)

\* The rotate handlers' flag writes: zero, subtraction and half_carry false,
\* carry = (bit == 1)
rotate_flags(bit) == [Flags_clear EXCEPT !.carry = (bit = 1)]

\* The mutation of rla that sets the zero flag from the rotated value
rla_zero_from_result(c, m) ==
    Result(pc_add([c EXCEPT !.registers.flags =
                               [rotate_flags(Bit(c.registers.a, 7)) EXCEPT
                                  !.zero = (((c.registers.a * 2) % 256)
                                              + B2N(c.registers.flags.carry) = 0)],
                            !.registers.a =
                               BitAnd(((c.registers.a * 2) % 256), 255)
                                 + BitAnd(B2N(c.registers.flags.carry), 1)], 1),
           m, "RLA", 1, 1, pc_ovf(c, 1))

\* rla: new_carry = (a >> 7) & 1; shifted = ((a << 1) & 0xff) + old_carry;
\* flags.clear(); flags.carry = new_carry == 1; registers.a = shifted
rla(c, m) ==
    Result(pc_add([c EXCEPT !.registers.flags = rotate_flags(BitAnd(c.registers.a \div 128, 1)),
                            !.registers.a =
                               BitAnd(((c.registers.a * 2) % 256), 255)
                                 + BitAnd(B2N(c.registers.flags.carry), 1)], 1),
           m, "RLA", 1, 1, pc_ovf(c, 1))

\* rlca: msb = (a & 0x80) >> 7; a <<= 1; a |= msb << 0; set_r8(A, a)
rlca(c, m) ==
    Result(pc_add([c EXCEPT !.registers =
                     set_r8([@ EXCEPT !.flags = rotate_flags(BitAnd(c.registers.a, 128) \div 128)],
                            "A",
                            BitOr(((c.registers.a * 2) % 256),
                                  BitAnd(c.registers.a, 128) \div 128))], 1),
           m, "RLCA", 1, 1, pc_ovf(c, 1))

\* rra: lsb = a & 1; a >>= 1; a |= carry << 7; set_r8(A, a)
rra(c, m) ==
    Result(pc_add([c EXCEPT !.registers =
                     set_r8([@ EXCEPT !.flags = rotate_flags(BitAnd(c.registers.a, 1))],
                            "A",
                            BitOr(c.registers.a \div 2,
                                  B2N(c.registers.flags.carry) * 128))], 1),
           m, "RRA", 1, 1, pc_ovf(c, 1))

\* rrca: lsb = a & 1; a >>= 1; a |= lsb << 7; set_r8(A, a)
rrca(c, m) ==
    Result(pc_add([c EXCEPT !.registers =
                     set_r8([@ EXCEPT !.flags = rotate_flags(BitAnd(c.registers.a, 1))],
                            "A",
                            BitOr(c.registers.a \div 2,
                                  BitAnd(c.registers.a, 1) * 128))], 1),
           m, "RRCA", 1, 1, pc_ovf(c, 1))

\* The CB-prefixed rotates and shifts write the flags as zero = (value == 0),
\* subtraction = false, half_carry = false, carry = (bit == 1)
shift_flags(value, bit) ==
    [zero |-> value = 0, subtraction |-> FALSE, half_carry |-> FALSE, carry |-> bit = 1]

\* The tail of the r8 forms: the flags, set_r8(r8, value), pc += 2, Ok(.., 2, 2)
shift_set_r8(r8, value, bit, mnemonic, c, m) ==
    Return(Step([c EXCEPT !.registers =
                    set_r8([@ EXCEPT !.flags = shift_flags(value, bit)], r8, value)],
                m, FALSE),
           2, mnemonic, 2, 2)

\* The tail of the [HL] forms: the flags, mem.write(hl, value), pc += 2
shift_set_hl(value, bit, mnemonic, cycles, c, m) ==
    Return(Step([c EXCEPT !.registers.flags = shift_flags(value, bit)],
                Memory_write(m, c.registers.hl, value), FALSE),
           2, mnemonic, 2, cycles)

\* rl_r8: new_carry = (reg >> 7) & 1; shifted = ((reg << 1) & 0xff) + old_carry
rl_r8(r8, c, m) ==
    LET reg == get_r8(c.registers, r8) IN
    shift_set_r8(r8, BitAnd((reg * 2) % 256, 255) + BitAnd(B2N(c.registers.flags.carry), 1),
                 BitAnd(reg \div 128, 1), "RL", c, m)

\* rl_hl
rl_hl(c, m) ==
    LET byte == Memory_read(m, c.registers.hl) IN
    shift_set_hl(BitAnd((byte * 2) % 256, 255) + BitAnd(B2N(c.registers.flags.carry), 1),
                 BitAnd(byte \div 128, 1), "RL", 4, c, m)

\* rlc_r8: msb = (reg & 0x80) >> 7; reg <<= 1; reg |= msb << 0
rlc_r8(r8, c, m) ==
    LET reg == get_r8(c.registers, r8) IN
    shift_set_r8(r8, BitOr((reg * 2) % 256, BitAnd(reg, 128) \div 128),
                 BitAnd(reg, 128) \div 128, "RLC", c, m)

\* rlc_hl
rlc_hl(c, m) ==
    LET byte == Memory_read(m, c.registers.hl) IN
    shift_set_hl(BitOr((byte * 2) % 256, BitAnd(byte, 128) \div 128),
                 BitAnd(byte, 128) \div 128, "RLC", 4, c, m)

\* rr_r8: lsb = reg & 1; reg >>= 1; reg |= carry << 7
rr_r8(r8, c, m) ==
    LET reg == get_r8(c.registers, r8) IN
    shift_set_r8(r8, BitOr(reg \div 2, B2N(c.registers.flags.carry) * 128),
                 BitAnd(reg, 1), "RR", c, m)

\* rr_hl
rr_hl(c, m) ==
    LET byte == Memory_read(m, c.registers.hl) IN
    shift_set_hl(BitOr(byte \div 2, B2N(c.registers.flags.carry) * 128),
                 BitAnd(byte, 1), "RR", 4, c, m)

\* rrc_r8: lsb = reg & 1; reg >>= 1; reg |= lsb << 7
rrc_r8(r8, c, m) ==
    LET reg == get_r8(c.registers, r8) IN
    shift_set_r8(r8, BitOr(reg \div 2, BitAnd(reg, 1) * 128), BitAnd(reg, 1), "RRC", c, m)

\* rrc_hl
rrc_hl(c, m) ==
    LET byte == Memory_read(m, c.registers.hl) IN
    shift_set_hl(BitOr(byte \div 2, BitAnd(byte, 1) * 128), BitAnd(byte, 1), "RRC", 4, c, m)

\* sla_r8: reg <<= 1; msb = (reg & 0x80) >> 7, taken from the shifted value
sla_r8(r8, c, m) ==
    LET reg == (get_r8(c.registers, r8) * 2) % 256 IN
    shift_set_r8(r8, reg, BitAnd(reg, 128) \div 128, "SLA", c, m)

\* sla_hl: byte <<= 1; msb = (byte & 0x80) >> 7, taken from the shifted value
sla_hl(c, m) ==
    LET byte == (Memory_read(m, c.registers.hl) * 2) % 256 IN
    shift_set_hl(byte, BitAnd(byte, 128) \div 128, "SLA", 4, c, m)

\* sra_r8: msb = (reg & 0x80) >> 7; lsb = reg & 1; reg >>= 1; reg |= msb << 7
sra_r8(r8, c, m) ==
    LET reg == get_r8(c.registers, r8) IN
    shift_set_r8(r8, BitOr(reg \div 2, (BitAnd(reg, 128) \div 128) * 128),
                 BitAnd(reg, 1), "SRA", c, m)

\* sra_hl
sra_hl(c, m) ==
    LET byte == Memory_read(m, c.registers.hl) IN
    shift_set_hl(BitOr(byte \div 2, (BitAnd(byte, 128) \div 128) * 128),
                 BitAnd(byte, 1), "SRA", 4, c, m)

\* srl_r8: lsb = reg & 1; reg >>= 1
srl_r8(r8, c, m) ==
    LET reg == get_r8(c.registers, r8) IN
    shift_set_r8(r8, reg \div 2, BitAnd(reg, 1), "SRL", c, m)

\* srl_hl: byte >>= 1; lsb = byte & 1, taken from the shifted value
srl_hl(c, m) ==
    LET byte == Memory_read(m, c.registers.hl) \div 2 IN
    shift_set_hl(byte, BitAnd(byte, 1), "SRL", 4, c, m)

\* swap_r8: reg = (reg << 4) | (reg >> 4); carry = false; set_r8(r8, reg & 0xff)
swap_r8(r8, c, m) ==
    LET reg == get_r8(c.registers, r8) IN
    shift_set_r8(r8, BitAnd(BitOr((reg * 16) % 256, reg \div 16), 255), 0, "SWAP", c, m)

\* swap_hl: Ok(.., 2, 2)
swap_hl(c, m) ==
    LET byte == Memory_read(m, c.registers.hl) IN
    shift_set_hl(BitAnd(BitOr((byte * 16) % 256, byte \div 16), 255), 0, "SWAP", 2, c, m)

(* instructions/bitflag.rs: the handlers leave PC alone *)

\* BIT: bit = (byte >> u3) & u3; zero = (bit == 1); subtraction = false; half_carry = true
bit_flags(byte, u3, c) ==
    [c EXCEPT !.registers.flags =
        [@ EXCEPT !.zero = (BitAnd(byte \div (2 ^ u3), u3) = 1),
                  !.subtraction = FALSE, !.half_carry = TRUE]]

\* bit_u3_r8: BIT u3,r8
bit_u3_r8(u3, r8, c, m) ==
    Result(bit_flags(get_r8(c.registers, r8), u3, c), m, "BIT", 2, 2, FALSE)

\* bit_u3_hl: BIT u3,[HL]
bit_u3_hl(u3, c, m) ==
    Result(bit_flags(Memory_read(m, c.registers.hl), u3, c), m, "BIT", 2, 3, FALSE)

\* res_u3_r8: reg |= 0 << u3; set_r8(r8, reg)
res_u3_r8(u3, r8, c, m) ==
    Result([c EXCEPT !.registers =
               set_r8(@, r8, BitOr(get_r8(@, r8), (0 * (2 ^ u3)) % 256))],
           m, "RES", 2, 2, FALSE)

\* res_u3_hl: byte |= 0 << u3; mem.write(hl, byte)
res_u3_hl(u3, c, m) ==
    Result(c, Memory_write(m, c.registers.hl,
                           BitOr(Memory_read(m, c.registers.hl), (0 * (2 ^ u3)) % 256)),
           "RES", 2, 4, FALSE)

\* set_u3_r8: reg |= 1 << u3; set_r8(r8, reg)
set_u3_r8(u3, r8, c, m) ==
    Result([c EXCEPT !.registers =
               set_r8(@, r8, BitOr(get_r8(@, r8), (2 ^ u3) % 256))],
           m, "SET", 2, 2, FALSE)

\* set_u3_hl: byte |= 1 << u3; mem.write(hl, byte)
set_u3_hl(u3, c, m) ==
    Result(c, Memory_write(m, c.registers.hl,
                           BitOr(Memory_read(m, c.registers.hl), (2 ^ u3) % 256)),
           "SET", 2, 4, FALSE)

(* instructions/bitwise.rs *)

\* cpl: a = (a != a) as u8; subtraction = true; half_carry = true; set_r8(A, a);
\* it leaves PC alone
cpl(c, m) ==
    Result([c EXCEPT !.registers =
               set_r8([@ EXCEPT !.flags.subtraction = TRUE, !.flags.half_carry = TRUE],
                      "A", B2N(get_r8(@, "A") # get_r8(@, "A")))],
           m, "CPL", 1, 1, FALSE)

(* instructions/arithmetic_16bit.rs *)

\* add_16bit, from `b + carry` (b1) on: (sum, carry) = a.overflowing_add(b + carry);
\* flags = (sum == 0) << 7 | 0 << 6 | half_carry << 5 | carry << 4
add_16bit_flags(a, b1, half_carry) ==
    [sum |-> Add16(a, b1.val).val,
     flags |-> BitOr(BitOr(B2N(Add16(a, b1.val).val = 0) * 128, B2N(half_carry) * 32),
                     B2N(Add16(a, b1.val).ovf) * 16),
     ovf |-> b1.ovf]

\* add_16bit(a, b, carry_flag):
\* half_carry = ((a & 0x00ff) + (b & 0x00ff) & 0x0100) == 0x0100
add_16bit(a, b, carry_flag) ==
    add_16bit_flags(a, Add16(b, carry_flag),
                    BitAnd(BitAnd(a, 255) + BitAnd(b, 255), 256) = 256)

\* The tail of the ADD HL handlers, for the (sum, flags) pair r:
\* flags.set(flags); set_r16(HL, sum)
alu_set_hl16(r, c, m) ==
    Step([c EXCEPT !.registers = set_r16([@ EXCEPT !.flags = Flags_set(r.flags)],
                                         "HL", r.sum)],
         m, r.ovf)

\* add_r16_hl: ADD HL,r16; it leaves PC alone
add_r16_hl(r16, c, m) ==
    Return(alu_set_hl16(add_16bit(get_r16(c.registers, r16), c.registers.hl, 0), c, m),
           0, "ADD", 1, 2)

\* stack.rs add_hl_sp: ADD HL,SP
add_hl_sp(c, m) ==
    Return(alu_set_hl16(add_16bit(c.registers.sp, c.registers.hl, 0), c, m),
           1, "ADD", 1, 2)

---------------------------------------------------------------------------
(* interrupts.rs *)

\* Interrupt::get_interrupt(value): a match on the whole byte
get_interrupt(value) ==
    CASE value = 4 -> "Joypad"
      [] value = 3 -> "Serial"
      [] value = 2 -> "Timer"
      [] value = 1 -> "Stat"
      [] value = 0 -> "VBlank"
      [] OTHER -> "None"

---------------------------------------------------------------------------
(* clock.rs *)

\* Clock::new
Clock_new == [m_cycles |-> 0, dots |-> 0]

\* Clock::tick after its scanline step (line): the VBlank request when
\* m_cycles > 143, and the reset of m_cycles when m_cycles > 153
tick_request(clk, line) ==
    [clock |-> [m_cycles |-> IF clk.m_cycles > 153 THEN 0 ELSE clk.m_cycles,
                dots |-> clk.m_cycles * 4],
     mem |-> IF clk.m_cycles > 143
             THEN set_interrupt_registers(line.mem,
                                          BitOr(get_interrupt_registers(line.mem), 1))
             ELSE line.mem,
     ovf |-> line.ovf]

\* Clock::tick: dots = m_cycles * 4; inc_scanline when dots % 456 == 0; then the rest
Clock_tick(clk, m) ==
    tick_request(clk, IF (clk.m_cycles * 4) % 456 = 0
                      THEN inc_scanline(m)
                      ELSE [mem |-> m, ovf |-> FALSE])

---------------------------------------------------------------------------
(* cpu.rs: Cpu::execute *)

\* lib.rs get_u8 / get_u16 on the iterator over cloned_memory.rom()[pc..]:
\* the byte(s) at index i of the ROM slice, little endian; missing past its end
get_u8(m, i) == [ok |-> i < rom_len, val |-> rom_byte(m, i)]
get_u16(m, i) ==
    [ok |-> i + 1 < rom_len, val |-> rom_byte(m, i) + 256 * rom_byte(m, i + 1)]

\* The opcode bytes whose table entries are modelled
Opcodes == {OP_NOP, OP_LD_A_N8, OP_CALL_N16, OP_RETI, OP_LD_N16_A, OP_DI, OP_EI}

\* INSTRUCTION_SET[opcode](&mut ctx): the entry fetches its operands from the
\* iterator (an Err when one is missing) and calls the handler
INSTRUCTION_SET(opcode, c, m) ==
    LET i == c.registers.pc + 1
        n8 == get_u8(m, i)
        n16 == get_u16(m, i)
        Err == [ok |-> FALSE]
        Ok(r) == [ok |-> TRUE, r |-> r]
    IN CASE opcode = OP_NOP -> Ok(nop(c, m))
         [] opcode = OP_LD_A_N8 -> IF n8.ok THEN Ok(ld_r8_n8("A", n8.val, c, m)) ELSE Err
         [] opcode = OP_CALL_N16 -> IF n16.ok THEN Ok(call_n16(n16.val, c, m)) ELSE Err
         [] opcode = OP_RETI -> Ok(reti(c, m))
         [] opcode = OP_LD_N16_A -> IF n16.ok THEN Ok(ld_a_immed_n16(n16.val, c, m)) ELSE Err
         [] opcode = OP_DI -> Ok(di(c, m))
         [] opcode = OP_EI -> Ok(ei(c, m))

\* What Cpu::execute leaves: outcome is "ok" (Ok(cycles)), "err"
\* (MissingOpcodeByte / NoCycles) or "panic" (pc past the end of the ROM slice,
\* or an overflow in the handler when the build checks overflow)
Executed(outcome, c, m, cycles, mnemonic) ==
    [outcome |-> outcome, cpu |-> c, mem |-> m, cycles |-> cycles,
     mnemonic |-> mnemonic]

\* Cpu::execute on the table entry's result d: Err(NoCycles) unless it is Ok;
\* RETI | EI => self.ime = true; Ok(instruction.cycles)
execute_entry(d, c, m) ==
    IF ~d.ok THEN Executed("err", c, m, 0, "none")
    ELSE IF d.r.ovf /\ overflow_checks THEN Executed("panic", c, m, 0, "none")
    ELSE Executed("ok",
                  IF d.r.mnemonic \in {"RETI", "EI"}
                  THEN [d.r.cpu EXCEPT !.ime = TRUE] ELSE d.r.cpu,
                  d.r.mem, d.r.cycles, d.r.mnemonic)

\* Cpu::execute(memory) -> Result<u8, CpuError>
execute(c, m) ==
    IF c.registers.pc > rom_len THEN Executed("panic", c, m, 0, "none")
    ELSE IF c.registers.pc = rom_len THEN Executed("err", c, m, 0, "none")
    ELSE execute_entry(INSTRUCTION_SET(rom_byte(m, c.registers.pc), c, m), c, m)

\* instructions.rs `pub const INSTRUCTION_SET: [Thunk; 112]`: the length of the table
INSTRUCTION_SET_LEN == 112

\* The entries of that table whose handlers are under instructions/: nop, inc_r8,
\* dec_r8, rlca, rrca, rla, rra, at their place in the array
TableOpcodes == {0, 4, 5, 7, 12, 13, 15, 20, 21, 23, 28, 29, 31}
table_entry(opcode, c, m) ==
    CASE opcode = 0 -> nop(c, m)
      [] opcode = 4 -> inc_r8("B", c, m)
      [] opcode = 5 -> dec_r8("B", c, m)
      [] opcode = 7 -> rlca(c, m)
      [] opcode = 12 -> inc_r8("C", c, m)
      [] opcode = 13 -> dec_r8("C", c, m)
      [] opcode = 15 -> rrca(c, m)
      [] opcode = 20 -> inc_r8("D", c, m)
      [] opcode = 21 -> dec_r8("D", c, m)
      [] opcode = 23 -> rla(c, m)
      [] opcode = 28 -> inc_r8("E", c, m)
      [] opcode = 29 -> dec_r8("E", c, m)
      [] opcode = 31 -> rra(c, m)

\* Cpu::execute over that table: INSTRUCTION_SET[opcode_byte as usize] is an
\* unchecked index into an array of 112 entries
execute_table(c, m) ==
    IF c.registers.pc > rom_len THEN Executed("panic", c, m, 0, "none")
    ELSE IF c.registers.pc = rom_len THEN Executed("err", c, m, 0, "none")
    ELSE IF rom_byte(m, c.registers.pc) >= INSTRUCTION_SET_LEN
    THEN Executed("panic", c, m, 0, "none")
    ELSE execute_entry([ok |-> TRUE, r |-> table_entry(rom_byte(m, c.registers.pc), c, m)],
                       c, m)

---------------------------------------------------------------------------
(* system.rs *)

\* System::handle_interrupt, `let handler = match interrupt { .. }`
handler(interrupt) ==
    CASE interrupt = "VBlank" -> 64
      [] interrupt = "Stat"   -> 72
      [] interrupt = "Timer"  -> 80
      [] interrupt = "Serial" -> 88
      [] interrupt = "Joypad" -> 96

\* What the interrupt step of the loop leaves, and the interrupt it entered
Entered(interrupt, p) ==
    [cpu |-> p.cpu, mem |-> p.mem, interrupt |-> interrupt, ovf |-> p.ovf]

\* System::handle_interrupt for the looked-up interrupt:
\* call_n16(handler, cpu, mem) if it is Some
enter_interrupt(interrupt, c, m) ==
    IF interrupt = "None" THEN Entered("None", Step(c, m, FALSE))
    ELSE Entered(interrupt, call_n16(handler(interrupt), c, m))

\* System::handle_interrupt: the interrupt is looked up from
\* mem.get_interrupt_registers()
handle_interrupt(c, m) ==
    enter_interrupt(get_interrupt(get_interrupt_registers(m)), c, m)

\* The mutation of the interrupt step of System::run that drops its `if self.cpu.ime`
run_interrupts_unguarded(c, m) == handle_interrupt(c, m)

\* System::run, "handle interrupts": if self.cpu.ime { self.handle_interrupt(); }
run_interrupts(c, m) ==
    IF c.ime THEN handle_interrupt(c, m) ELSE Entered("None", Step(c, m, FALSE))

\* Ppu::update_scanline(mem, clock, lcdc, scanline): produces the pixels of the
\* line; it leaves the registers, the clock and the modelled memory bytes alone
update_scanline(m) == m

\* System::run: if scanline <= 143 && lcdc.lcd_ppu_enable { update_scanline; dots += 4 }
run_draw(draw, clk, m) ==
    [clock |-> [clk EXCEPT !.dots = IF draw THEN @ + 4 ELSE @],
     mem |-> IF draw THEN update_scanline(m) ELSE m]

\* System::run: match scanline { 143 => VerticalBlank }, then match self.clock.dots
run_match(scanline, d, p) ==
    [clock |-> d.clock,
     ppu |-> [p EXCEPT !.mode =
                 CASE d.clock.dots <= 80 -> "OAMScan"
                   [] d.clock.dots \in 81..252 -> "Drawing"
                   [] OTHER -> IF scanline = 143 THEN "VerticalBlank" ELSE @],
     mem |-> CASE d.clock.dots <= 80 -> d.mem
               [] d.clock.dots \in 81..252 ->
                    [d.mem EXCEPT !.oam_accessible = FALSE, !.vram_accessible = FALSE]
               [] OTHER ->
                    [d.mem EXCEPT !.oam_accessible = TRUE, !.vram_accessible = TRUE]]

\* System::run, from `let scanline = self.mem.read(LY)` to the end of the two matches
run_ppu(clk, p, m) ==
    run_match(Memory_read(m, LY),
              run_draw(Memory_read(m, LY) <= 143 /\ lcd_ppu_enable(m), clk, m), p)

---------------------------------------------------------------------------
(* The system loop: System::new followed by the iterations of System::run *)

\* Iterations of the loop explored
MaxSteps == 160

\* The history of an iteration: the instruction executed, PC and SP when it had
\* executed, IME / IE / IF when the loop reached its interrupt step, the
\* interrupt entered there ("None" if none) and in the iteration before, and
\* the PC and SP that the latest interrupt entry interrupted (returns_to_*: the
\* latest entry before this iteration's)
NoIteration ==
    [mnemonic |-> "none",
     pc_after_exec |-> Registers_default.pc, sp_after_exec |-> Registers_default.sp,
     ime_at_check |-> FALSE, ie_at_check |-> 0, if_at_check |-> 0,
     serviced |-> "None", prev_serviced |-> "None",
     interrupted_pc |-> 0, interrupted_sp |-> 0,
     returns_to_pc |-> 0, returns_to_sp |-> 0,
     ime_at_fetch |-> FALSE, trail |-> <<>>]

\* The latest three iterations, oldest first, with the new one appended: where
\* each fetched its instruction, what it executed and the interrupt it entered
Trail(trail, entry) ==
    IF Len(trail) < 3 THEN Append(trail, entry) ELSE Append(Tail(trail), entry)

Iteration(ex, t, i) ==
    [mnemonic |-> ex.mnemonic,
     pc_after_exec |-> ex.cpu.registers.pc,
     sp_after_exec |-> ex.cpu.registers.sp,
     ime_at_check |-> ex.cpu.ime,
     ie_at_check |-> Memory_read(t.mem, INTERRUPT_ENABLE_REGISTER),
     if_at_check |-> Memory_read(t.mem, INTERRUPT_FLAG),
     serviced |-> i.interrupt,
     prev_serviced |-> last.serviced,
     interrupted_pc |-> IF i.interrupt # "None" THEN ex.cpu.registers.pc
                        ELSE last.interrupted_pc,
     interrupted_sp |-> IF i.interrupt # "None" THEN ex.cpu.registers.sp
                        ELSE last.interrupted_sp,
     returns_to_pc |-> last.interrupted_pc,
     returns_to_sp |-> last.interrupted_sp,
     ime_at_fetch |-> cpu.ime,
     trail |-> Trail(last.trail, [pc |-> cpu.registers.pc,
                                  mnemonic |-> ex.mnemonic,
                                  serviced |-> i.interrupt])]

\* System::new(game): Cartridge::new loads the image, Cpu::default, Clock::new, Ppu::new
Init ==
    /\ rom \in ProgramImages
    /\ overflow_checks \in BOOLEAN
    /\ cpu = Cpu_default
    /\ mem = Memory_new
    /\ clock = Clock_new
    /\ ppu = [mode |-> "OAMScan"]
    /\ status = "running"
    /\ steps = 0
    /\ total_m_cycles = 0
    /\ last = NoIteration

\* One iteration of the loop of System::run: execute (ex), m_cycles += cycles
\* and tick (t), interrupts (i), ppu (p).  A panic (execute(..).unwrap() on an
\* Err, a slice out of range, a checked overflow) ends the process.
RunIteration ==
    /\ status = "running"
    /\ steps < MaxSteps
    /\ cpu.registers.pc < rom_len => rom_byte(mem, cpu.registers.pc) \in Opcodes
    /\ steps' = steps + 1
    /\ UNCHANGED <<overflow_checks, rom>>
    /\ \E ex \in {execute(cpu, mem)} :
       \E t \in {Clock_tick([clock EXCEPT !.m_cycles = @ + ex.cycles], ex.mem)} :
       \E i \in {run_interrupts(ex.cpu, t.mem)} :
       \E p \in {run_ppu(t.clock, ppu, i.mem)} :
          IF ex.outcome # "ok" \/ (overflow_checks /\ (t.ovf \/ i.ovf))
          THEN /\ status' = "panicked"
               /\ UNCHANGED <<cpu, mem, clock, ppu, total_m_cycles, last>>
          ELSE /\ status' = "running"
               /\ cpu' = i.cpu
               /\ mem' = p.mem
               /\ clock' = p.clock
               /\ ppu' = p.ppu
               /\ total_m_cycles' = total_m_cycles + ex.cycles
               /\ last' = Iteration(ex, t, i)

\* Event::Quit / Escape from the event pump: break 'running
Quit ==
    /\ status = "running"
    /\ steps > 0
    /\ status' = "quit"
    /\ UNCHANGED <<cpu, mem, clock, ppu, overflow_checks, rom, steps,
                   total_m_cycles, last>>

Next == RunIteration \/ Quit

Spec == Init /\ [][Next]_vars

---------------------------------------------------------------------------
(* Properties of the system loop *)

\* Bit of IE / IF that belongs to an interrupt, and the interrupt of a bit
InterruptBit(interrupt) ==
    CASE interrupt = "VBlank" -> 0
      [] interrupt = "Stat"   -> 1
      [] interrupt = "Timer"  -> 2
      [] interrupt = "Serial" -> 3
      [] interrupt = "Joypad" -> 4

\* The lowest set bit of a non-zero byte
LowestBit(value) == CHOOSE b \in 0..7 : Bit(value, b) = 1 /\ \A k \in 0..(b - 1) : Bit(value, k) = 0

\* IE & IF, the five interrupt bits, when the loop reached its interrupt step
PendingAtCheck == BitAnd(BitAnd(last.ie_at_check, last.if_at_check), 31)

\* The 16-bit word on top of the stack
TopOfStack ==
    Memory_read(mem, cpu.registers.sp)
      + 256 * Memory_read(mem, (cpu.registers.sp + 1) % U16)

\* C2: in every reachable state of the system loop the clock's dot counter is
\* 4 times the number of machine cycles executed since reset (both sides stay
\* far below 2^32 within MaxSteps iterations, so the reduction mod 2^32 is idle).
C2_DotsFollowCycles == clock.dots = 4 * total_m_cycles

\* C3: the PPU mode matches (LY, dot in line): LY >= 144 gives VerticalBlank;
\* LY < 144 and dot < 80 gives OAMScan; LY < 144 and dot >= 80 gives Drawing or,
\* once drawing is complete, HorizontalBlank.
C3_ModeMatchesLine ==
    /\ Memory_read(mem, LY) >= 144 => ppu.mode = "VerticalBlank"
    /\ (Memory_read(mem, LY) < 144 /\ clock.dots % 456 < 80) => ppu.mode = "OAMScan"
    /\ (Memory_read(mem, LY) < 144 /\ clock.dots % 456 >= 80)
          => ppu.mode \in {"Drawing", "HorizontalBlank"}

\* C4: an iteration that reaches its interrupt step with IME clear enters no
\* interrupt handler: nothing is pushed and PC is not set to a vector, whatever
\* IE and IF hold.
C4_ImeClearServicesNothing ==
    ~last.ime_at_check =>
        /\ last.serviced = "None"
        /\ cpu.registers.pc = last.pc_after_exec
        /\ cpu.registers.sp = last.sp_after_exec

\* An iteration reached its interrupt step with IME clear while an interrupt
\* was requested and enabled and the loop's lookup had an interrupt for IE
C4_Witness ==
    /\ last.mnemonic # "none"
    /\ ~last.ime_at_check
    /\ PendingAtCheck # 0
    /\ get_interrupt(last.ie_at_check) # "None"

C13_BootState ==
    steps = 0 =>
        /\ cpu.registers.af = 432 /\ cpu.registers.a = 1
        /\ cpu.registers.flags = [zero |-> TRUE, subtraction |-> FALSE,
                                  half_carry |-> TRUE, carry |-> TRUE]
        /\ B2N(cpu.registers.flags.zero) * 128
             + B2N(cpu.registers.flags.subtraction) * 64
             + B2N(cpu.registers.flags.half_carry) * 32
             + B2N(cpu.registers.flags.carry) * 16 = cpu.registers.af % 256
        /\ cpu.registers.a = cpu.registers.af \div 256
        /\ cpu.registers.bc = 19
        /\ cpu.registers.b = 0 /\ cpu.registers.c = 19
        /\ cpu.registers.de = 216
        /\ cpu.registers.d = 0 /\ cpu.registers.e = 216
        /\ cpu.registers.hl = 333
        /\ cpu.registers.h = 1 /\ cpu.registers.l = 77
        /\ cpu.registers.sp = 65534
        /\ cpu.registers.pc = 256
        /\ ~cpu.ime
        /\ Memory_read(mem, LCDC) = 145
        /\ Memory_read(mem, DIV) = 24

\* The state right after construction, for a ROM image with code in it
C13_Witness == steps = 0 /\ status = "running" /\ rom = "ie_stat" /\ cpu.registers.pc = 256

C24_AccessWindows ==
    steps > 0 =>
        /\ mem.oam_accessible = (ppu.mode \notin {"OAMScan", "Drawing"})
        /\ mem.vram_accessible = (ppu.mode # "Drawing")
        /\ ppu.mode \in {"OAMScan", "Drawing"} => Memory_read(mem, 65024) = 255
        /\ ppu.mode = "Drawing" => Memory_read(mem, 32768) = 255

---------------------------------------------------------------------------
(* The register file: Registers::set_r8 / set_r16 and instructions applied to *)
(* the registers of Cpu::default()                                            *)

\* Register operations explored
MaxRegOps == 3

\* Bytes and words written
RegBytes == {0, 255}
RegWords == {4660}

\* The parts of the state an operation on the cpu and memory leaves alone
Idle == UNCHANGED <<clock, ppu, overflow_checks, rom, total_m_cycles>>

InitRegs ==
    /\ rom = "zeros"
    /\ overflow_checks \in BOOLEAN
    /\ cpu = Cpu_default
    /\ mem = Memory_new
    /\ clock = Clock_new
    /\ ppu = [mode |-> "OAMScan"]
    /\ status = "running"
    /\ steps = 0
    /\ total_m_cycles = 0
    /\ last = [op |-> "boot"]

\* The state after a handler returned r, or the panic of its checked overflow
Handled(r, op) ==
    /\ steps' = steps + 1
    /\ Idle
    /\ IF r.ovf /\ overflow_checks
       THEN status' = "panicked" /\ UNCHANGED <<cpu, mem, last>>
       ELSE status' = "running" /\ cpu' = r.cpu /\ mem' = r.mem /\ last' = op

\* cpu.registers.set_r8(register, value)
SetR8 ==
    /\ status = "running" /\ steps < MaxRegOps
    /\ \E register \in R8, value \in RegBytes :
          Handled(Step([cpu EXCEPT !.registers = set_r8(@, register, value)], mem, FALSE),
                  [op |-> "set_r8"])

\* cpu.registers.set_r16(register, value)
SetR16 ==
    /\ status = "running" /\ steps < MaxRegOps
    /\ \E register \in {"AF", "BC", "DE", "HL"}, value \in RegWords :
          Handled(Step([cpu EXCEPT !.registers = set_r16(@, register, value)], mem, FALSE),
                  [op |-> "set_r16"])

\* ADC A,r8
AdcAR8 ==
    /\ status = "running" /\ steps < MaxRegOps
    /\ \E r8 \in R8 : Handled(adc_a_r8(r8, cpu, mem), [op |-> "adc_a_r8"])

NextRegs == SetR8 \/ SetR16 \/ AdcAR8

SpecRegs == InitRegs /\ [][NextRegs]_vars

\* C1: in every state reachable from boot by register writes and instructions,
\* the high byte of AF, BC, DE, HL is A, B, D, H and the low byte is F, C, E, L,
\* F being the flags as Z<<7 | N<<6 | H<<5 | C<<4, its low nibble zero.
C1_PairsConsistent ==
    /\ cpu.registers.af = cpu.registers.a * 256
                            + B2N(cpu.registers.flags.zero) * 128
                            + B2N(cpu.registers.flags.subtraction) * 64
                            + B2N(cpu.registers.flags.half_carry) * 32
                            + B2N(cpu.registers.flags.carry) * 16
    /\ cpu.registers.bc = cpu.registers.b * 256 + cpu.registers.c
    /\ cpu.registers.de = cpu.registers.d * 256 + cpu.registers.e
    /\ cpu.registers.hl = cpu.registers.h * 256 + cpu.registers.l

---------------------------------------------------------------------------
(* Guest writes and reads: LD [n16],A and LD A,[n16] over a loaded ROM *)

\* Memory operations explored
MaxMemOps == 3

\* Addresses written and read: ends of the two ROM banks, inside them, work RAM
MemAddrs == {0, 336, 16383, 16384, 32767, 49152}

InitMem ==
    /\ rom \in DataImages
    /\ overflow_checks \in BOOLEAN
    /\ cpu = Cpu_default
    /\ mem = Memory_new
    /\ clock = Clock_new
    /\ ppu = [mode |-> "OAMScan"]
    /\ status = "running"
    /\ steps = 0
    /\ total_m_cycles = 0
    /\ last = [op |-> "boot", addr |-> 0]

\* LD A,n8
LdAN8 ==
    /\ status = "running" /\ steps < MaxMemOps
    /\ \E n8 \in {0, 90} :
          Handled(ld_r8_n8("A", n8, cpu, mem), [op |-> "ld_r8_n8", addr |-> 0])

\* LD [n16],A
StoreA ==
    /\ status = "running" /\ steps < MaxMemOps
    /\ \E n16 \in MemAddrs :
          Handled(ld_a_immed_n16(n16, cpu, mem), [op |-> "ld_a_immed_n16", addr |-> n16])

\* LD A,[n16]
LoadA ==
    /\ status = "running" /\ steps < MaxMemOps
    /\ \E n16 \in MemAddrs :
          Handled(ld_immed_n16_a(n16, cpu, mem), [op |-> "ld_immed_n16_a", addr |-> n16])

NextMem == LdAN8 \/ StoreA \/ LoadA

SpecMem == InitMem /\ [][NextMem]_vars

\* C9: after any sequence of CPU writes, every byte of 0x0000-0x7FFF is the
\* byte that loading the ROM image left there: no write mutates ROM storage.
C9_RomNeverMutated ==
    \A addr \in ROM_BANK_0_START..ROM_BANK_1_END :
        addr \in MemAddrs => Memory_read(mem, addr) = setup_rom(rom, addr)

---------------------------------------------------------------------------
(* The timer: writes of TIMA and TMA, and Memory::inc_tima *)

\* Timer operations explored
MaxTimerOps == 4

\* Bytes written to TIMA and TMA
TimerBytes == {0, 66, 254, 255}

InitTimer ==
    /\ rom = "zeros"
    /\ overflow_checks \in BOOLEAN
    /\ cpu = Cpu_default
    /\ mem = Memory_new
    /\ clock = Clock_new
    /\ ppu = [mode |-> "OAMScan"]
    /\ status = "running"
    /\ steps = 0
    /\ total_m_cycles = 0
    /\ last = [op |-> "boot", tima |-> 0, tma |-> 0]

\* mem.write(TIMA, value)
WriteTima ==
    /\ status = "running" /\ steps < MaxTimerOps
    /\ \E value \in TimerBytes :
          Handled(Step(cpu, Memory_write(mem, TIMA, value), FALSE),
                  [op |-> "write", tima |-> Memory_read(mem, TIMA),
                   tma |-> Memory_read(mem, TMA)])

\* mem.write(TMA, value)
WriteTma ==
    /\ status = "running" /\ steps < MaxTimerOps
    /\ \E value \in TimerBytes :
          Handled(Step(cpu, Memory_write(mem, TMA, value), FALSE),
                  [op |-> "write", tima |-> Memory_read(mem, TIMA),
                   tma |-> Memory_read(mem, TMA)])

\* mem.inc_tima()
IncTima ==
    /\ status = "running" /\ steps < MaxTimerOps
    /\ \E t \in {inc_tima(mem)} :
          Handled(Step(cpu, t.mem, t.ovf),
                  [op |-> "inc_tima", tima |-> Memory_read(mem, TIMA),
                   tma |-> Memory_read(mem, TMA)])

NextTimer == WriteTima \/ WriteTma \/ IncTima

SpecTimer == InitTimer /\ [][NextTimer]_vars

\* C14: an increment of TIMA at 0xFF leaves TIMA equal to TMA and bit 2 of IF
\* set; an increment of TIMA below 0xFF leaves TIMA one higher.
C14_TimerOverflow ==
    last.op = "inc_tima" =>
        IF last.tima = 255
        THEN /\ Memory_read(mem, TIMA) = last.tma
             /\ Bit(Memory_read(mem, REG_IF), 2) = 1
        ELSE Memory_read(mem, TIMA) = last.tima + 1

---------------------------------------------------------------------------
(* The ALU: the 8-bit arithmetic handlers over operands set in A and B *)

\* ALU operations explored
MaxAluOps == 2

\* Operand bytes: both ends, the nibble boundaries and the spec's examples
AluBytes == {0, 1, 5, 15, 16, 128, 240, 255}

\* Operand registers
AluRegs == {"A", "B"}

\* The record of an ALU operation: the registers it found and its operand
AluOp(op, b) == [op |-> op, before |-> cpu.registers, b |-> b]

\* A and B loaded, the carry flag either way
InitAlu ==
    /\ rom = "zeros"
    /\ overflow_checks \in BOOLEAN
    /\ \E a \in AluBytes, b \in AluBytes, carry \in BOOLEAN :
          cpu = [Cpu_default EXCEPT
                   !.registers = [set_r8(set_r8(@, "A", a), "B", b)
                                    EXCEPT !.flags.carry = carry]]
    /\ mem = Memory_new
    /\ clock = Clock_new
    /\ ppu = [mode |-> "OAMScan"]
    /\ status = "running"
    /\ steps = 0
    /\ total_m_cycles = 0
    /\ last = [op |-> "boot", before |-> Registers_default, b |-> 0]

\* ADD A,r8
AddA ==
    /\ status = "running" /\ steps < MaxAluOps
    /\ \E r8 \in AluRegs :
          Handled(add_a_r8(r8, cpu, mem), AluOp("ADD", get_r8(cpu.registers, r8)))

\* ADC A,r8
AdcA ==
    /\ status = "running" /\ steps < MaxAluOps
    /\ \E r8 \in AluRegs :
          Handled(adc_a_r8(r8, cpu, mem), AluOp("ADC", get_r8(cpu.registers, r8)))

\* SUB A,r8
SubA ==
    /\ status = "running" /\ steps < MaxAluOps
    /\ \E r8 \in AluRegs :
          Handled(sub_a_r8(r8, cpu, mem), AluOp("SUB", get_r8(cpu.registers, r8)))

\* SBC A,r8
SbcA ==
    /\ status = "running" /\ steps < MaxAluOps
    /\ \E r8 \in AluRegs :
          Handled(sbc_a_r8(r8, cpu, mem), AluOp("SBC", get_r8(cpu.registers, r8)))

\* CP A,r8
CpA ==
    /\ status = "running" /\ steps < MaxAluOps
    /\ \E r8 \in AluRegs :
          Handled(cp_a_r8(r8, cpu, mem), AluOp("CP", get_r8(cpu.registers, r8)))

\* INC r8
IncR8 ==
    /\ status = "running" /\ steps < MaxAluOps
    /\ \E r8 \in AluRegs :
          Handled(inc_r8(r8, cpu, mem), AluOp("INC", get_r8(cpu.registers, r8)))

\* DEC r8
DecR8 ==
    /\ status = "running" /\ steps < MaxAluOps
    /\ \E r8 \in AluRegs :
          Handled(dec_r8(r8, cpu, mem), AluOp("DEC", get_r8(cpu.registers, r8)))

\* INC [HL]
IncHl ==
    /\ status = "running" /\ steps < MaxAluOps
    /\ Handled(inc_hl(cpu, mem), AluOp("INC [HL]", Memory_read(mem, cpu.registers.hl)))

\* DEC [HL]
DecHl ==
    /\ status = "running" /\ steps < MaxAluOps
    /\ Handled(dec_hl(cpu, mem), AluOp("DEC [HL]", Memory_read(mem, cpu.registers.hl)))

\* RLA
Rla ==
    /\ status = "running" /\ steps < MaxAluOps
    /\ Handled(rla(cpu, mem), AluOp("RLA", cpu.registers.a))

\* RLCA
Rlca ==
    /\ status = "running" /\ steps < MaxAluOps
    /\ Handled(rlca(cpu, mem), AluOp("RLCA", cpu.registers.a))

\* RRA
Rra ==
    /\ status = "running" /\ steps < MaxAluOps
    /\ Handled(rra(cpu, mem), AluOp("RRA", cpu.registers.a))

\* RRCA
Rrca ==
    /\ status = "running" /\ steps < MaxAluOps
    /\ Handled(rrca(cpu, mem), AluOp("RRCA", cpu.registers.a))

NextAlu ==
    \/ AddA \/ AdcA \/ SubA \/ SbcA \/ CpA
    \/ IncR8 \/ DecR8 \/ IncHl \/ DecHl
    \/ Rla \/ Rlca \/ Rra \/ Rrca

SpecAlu == InitAlu /\ [][NextAlu]_vars

\* The carry an operation took in: the carry flag for ADC and SBC, 0 otherwise
CarryIn == IF last.op \in {"ADC", "SBC"} THEN B2N(last.before.flags.carry) ELSE 0

\* C15: after ADD A,r8 or ADC A,r8 on a, b and carry-in c (0 for ADD),
\* A = (a+b+c) mod 256, Z iff A = 0, N = 0, H iff (a&0xF)+(b&0xF)+c > 0xF,
\* C iff a+b+c > 0xFF.
C15_AddAdcFlags ==
    last.op \in {"ADD", "ADC"} =>
        /\ cpu.registers.a = (last.before.a + last.b + CarryIn) % 256
        /\ cpu.registers.flags.zero = (cpu.registers.a = 0)
        /\ ~cpu.registers.flags.subtraction
        /\ cpu.registers.flags.half_carry
             = ((last.before.a % 16) + (last.b % 16) + CarryIn > 15)
        /\ cpu.registers.flags.carry = (last.before.a + last.b + CarryIn > 255)

\* C16: after SUB A,r8, SBC A,r8 or CP A,r8 on a, b and carry-in c (0 for SUB
\* and CP), with result = (a-b-c) mod 256: Z iff result = 0, N = 1,
\* H iff (a&0xF)-(b&0xF)-c < 0, C iff a < b+c; A = result, but for CP A = a.
C16_SubSbcCpFlags ==
    last.op \in {"SUB", "SBC", "CP"} =>
        /\ cpu.registers.a = IF last.op = "CP" THEN last.before.a
                              ELSE (last.before.a - last.b - CarryIn + 512) % 256
        /\ cpu.registers.flags.zero
             = ((last.before.a - last.b - CarryIn + 512) % 256 = 0)
        /\ cpu.registers.flags.subtraction
        /\ cpu.registers.flags.half_carry
             = ((last.before.a % 16) - (last.b % 16) - CarryIn < 0)
        /\ cpu.registers.flags.carry = (last.before.a < last.b + CarryIn)

\* C17: INC r8, DEC r8, INC [HL] and DEC [HL] leave the carry flag as it was,
\* whatever the operand and the carry flag before.
C17_IncDecKeepCarry ==
    last.op \in {"INC", "DEC", "INC [HL]", "DEC [HL]"} =>
        cpu.registers.flags.carry = last.before.flags.carry

\* C19: after RLA, RRA, RLCA or RRCA, Z, N and H are clear (also when A is 0),
\* the carry flag is the bit shifted out of A (bit 7 for the left rotates,
\* bit 0 for the right ones), and A is the rotated value: the old carry comes
\* in for RLA and RRA, the bit shifted out for RLCA and RRCA.
C19_AccumulatorRotates ==
    last.op \in {"RLA", "RLCA", "RRA", "RRCA"} =>
        /\ ~cpu.registers.flags.zero
        /\ ~cpu.registers.flags.subtraction
        /\ ~cpu.registers.flags.half_carry
        /\ cpu.registers.flags.carry
             = IF last.op \in {"RLA", "RLCA"} THEN last.before.a >= 128
               ELSE last.before.a % 2 = 1
        /\ cpu.registers.a
             = CASE last.op = "RLA" ->
                      ((2 * last.before.a) % 256) + B2N(last.before.flags.carry)
                 [] last.op = "RLCA" ->
                      ((2 * last.before.a) % 256) + last.before.a \div 128
                 [] last.op = "RRA" ->
                      last.before.a \div 2 + 128 * B2N(last.before.flags.carry)
                 [] last.op = "RRCA" ->
                      last.before.a \div 2 + 128 * (last.before.a % 2)

\* RLA of 0x80 with the carry clear: A is 0, Z stays clear and C is set
C19_Witness ==
    /\ last.op = "RLA" /\ last.before.a = 128 /\ ~last.before.flags.carry
    /\ cpu.registers.a = 0
    /\ ~cpu.registers.flags.zero
    /\ cpu.registers.flags.carry

---------------------------------------------------------------------------
(* The 16-bit ALU: ADD HL,r16 and ADD HL,SP over words set in HL, BC and SP *)

\* 16-bit ALU operations explored
MaxAlu16Ops == 2

\* Words loaded: both ends and the borders of bits 7, 11 and 15
AluWords == {0, 1, 255, 2048, 4095, 32768, 65535}

\* The record of a 16-bit ALU operation: the registers it found and its operand
Alu16Op(b) == [op |-> "ADD HL", before |-> cpu.registers, b |-> b]

\* HL, BC and SP loaded, the zero flag either way
InitAlu16 ==
    /\ rom = "zeros"
    /\ overflow_checks \in BOOLEAN
    /\ \E hl \in AluWords, rr \in AluWords, zero \in BOOLEAN :
          cpu = [Cpu_default EXCEPT
                   !.registers = [set_r16(set_r16(set_r16(@, "HL", hl), "BC", rr), "SP", rr)
                                    EXCEPT !.flags.zero = zero]]
    /\ mem = Memory_new
    /\ clock = Clock_new
    /\ ppu = [mode |-> "OAMScan"]
    /\ status = "running"
    /\ steps = 0
    /\ total_m_cycles = 0
    /\ last = [op |-> "boot", before |-> Registers_default, b |-> 0]

\* ADD HL,r16
AddR16Hl ==
    /\ status = "running" /\ steps < MaxAlu16Ops
    /\ \E r16 \in {"BC", "DE", "HL"} :
          Handled(add_r16_hl(r16, cpu, mem), Alu16Op(get_r16(cpu.registers, r16)))

\* ADD HL,SP
AddHlSp ==
    /\ status = "running" /\ steps < MaxAlu16Ops
    /\ Handled(add_hl_sp(cpu, mem), Alu16Op(cpu.registers.sp))

NextAlu16 == AddR16Hl \/ AddHlSp

SpecAlu16 == InitAlu16 /\ [][NextAlu16]_vars

\* C18: after ADD HL,rr, HL = (HL + rr) mod 2^16 with H and L its halves,
\* N = 0, H is the carry out of bit 11, C the carry out of bit 15, and Z is
\* as it was.
C18_AddHlFlags ==
    last.op = "ADD HL" =>
        /\ cpu.registers.hl = (last.before.hl + last.b) % 65536
        /\ cpu.registers.h = cpu.registers.hl \div 256
        /\ cpu.registers.l = cpu.registers.hl % 256
        /\ ~cpu.registers.flags.subtraction
        /\ cpu.registers.flags.half_carry
             = ((last.before.hl % 4096) + (last.b % 4096) > 4095)
        /\ cpu.registers.flags.carry = (last.before.hl + last.b > 65535)
        /\ cpu.registers.flags.zero = last.before.flags.zero

---------------------------------------------------------------------------
(* Calls: CALL n16 and CALL cc,n16 from a program counter and stack pointer *)

\* Calls explored
MaxCallOps == 2

\* Program counters, stack pointers and targets: inside ROM and RAM and at the
\* ends of the address space
CallPcs == {256, 32765, 65532, 65533}
CallSps == {65534, 49152, 2, 1}
CallTargets == {1056, 0}
Conditions == {"NotZero", "Zero", "NotCarry", "Carry"}

\* The record of a call: the registers and memory it found, its target,
\* whether it was to be taken, and the cycles it reported
CallOp(r, n16, taken) ==
    [op |-> "CALL", before |-> cpu.registers, mem |-> mem, n16 |-> n16,
     taken |-> taken, cycles |-> r.cycles]

\* PC and SP loaded, the zero and carry flags either way
InitCall ==
    /\ rom = "zeros"
    /\ overflow_checks \in BOOLEAN
    /\ \E pc \in CallPcs, sp \in CallSps, zero \in BOOLEAN, carry \in BOOLEAN :
          cpu = [Cpu_default EXCEPT
                   !.registers = [set_r16(set_r16(@, "PC", pc), "SP", sp)
                                    EXCEPT !.flags.zero = zero, !.flags.carry = carry]]
    /\ mem = Memory_new
    /\ clock = Clock_new
    /\ ppu = [mode |-> "OAMScan"]
    /\ status = "running"
    /\ steps = 0
    /\ total_m_cycles = 0
    /\ last = [op |-> "boot", before |-> Registers_default, mem |-> Memory_new,
               n16 |-> 0, taken |-> FALSE, cycles |-> 0]

\* CALL n16
CallN16 ==
    /\ status = "running" /\ steps < MaxCallOps
    /\ \E n16 \in CallTargets :
          \E r \in {call_n16(n16, cpu, mem)} : Handled(r, CallOp(r, n16, TRUE))

\* CALL cc,n16
CallCcN16 ==
    /\ status = "running" /\ steps < MaxCallOps
    /\ \E n16 \in CallTargets, condition \in Conditions :
          \E r \in {call_cc_n16(n16, condition, cpu, mem)} :
             Handled(r, CallOp(r, n16, cc(cpu, condition)))

\* The record of a return: the registers and memory it found, whether it was
\* to be taken, and the cycles it reported
RetOp(r, taken) ==
    [op |-> "RET", before |-> cpu.registers, mem |-> mem, n16 |-> 0,
     taken |-> taken, cycles |-> r.cycles]

\* RET
Ret ==
    /\ status = "running" /\ steps < MaxCallOps
    /\ \E r \in {ret(cpu, mem)} : Handled(r, RetOp(r, TRUE))

\* RETI
Reti ==
    /\ status = "running" /\ steps < MaxCallOps
    /\ \E r \in {reti(cpu, mem)} : Handled(r, RetOp(r, TRUE))

\* RET cc
RetCc ==
    /\ status = "running" /\ steps < MaxCallOps
    /\ \E condition \in Conditions :
          \E r \in {ret_cc(condition, cpu, mem)} :
             Handled(r, RetOp(r, cc(cpu, condition)))

\* Relative jump offsets: zero, forward, the ends of the signed range, backward
JrOffsets == {0, 2, 127, 128, 252, 255}

\* The record of a relative jump: the registers and memory it found, its
\* operand byte, whether it was to be taken, and the cycles it reported
JrOp(r, e8, taken) ==
    [op |-> "JR", before |-> cpu.registers, mem |-> mem, n16 |-> e8,
     taken |-> taken, cycles |-> r.cycles]

\* JR e8
JrN16 ==
    /\ status = "running" /\ steps < MaxCallOps
    /\ \E e8 \in JrOffsets :
          \E r \in {jr_n16(e8, cpu, mem)} : Handled(r, JrOp(r, e8, TRUE))

\* JR cc,e8
JrCcN16 ==
    /\ status = "running" /\ steps < MaxCallOps
    /\ \E e8 \in JrOffsets, condition \in Conditions :
          \E r \in {jr_cc_n16(e8, condition, cpu, mem)} :
             Handled(r, JrOp(r, e8, cc(cpu, condition)))

NextCall == CallN16 \/ CallCcN16 \/ Ret \/ Reti \/ RetCc \/ JrN16 \/ JrCcN16

SpecCall == InitCall /\ [][NextCall]_vars

\* C20: a CALL n16, or a CALL cc,n16 whose condition holds, executed at PC = P
\* leaves SP two lower, the high byte of P+3 at the new SP+1 and its low byte
\* at the new SP, PC = n16, and reports 6 M-cycles; a CALL cc,n16 whose
\* condition does not hold leaves SP and memory as they were, PC = P+3, and
\* reports 3 M-cycles.
C20_Call ==
    last.op = "CALL" =>
        IF last.taken
        THEN /\ cpu.registers.sp = (last.before.sp + 65534) % 65536
             /\ Memory_read(mem, (cpu.registers.sp + 1) % 65536)
                  = ((last.before.pc + 3) % 65536) \div 256
             /\ Memory_read(mem, cpu.registers.sp) = (last.before.pc + 3) % 256
             /\ cpu.registers.pc = last.n16
             /\ last.cycles = 6
        ELSE /\ cpu.registers.sp = last.before.sp
             /\ mem = last.mem
             /\ cpu.registers.pc = (last.before.pc + 3) % 65536
             /\ last.cycles = 3

\* CALL 0x0420 at PC = 0x0100 with SP = 0xFFFE: 0x0103 is on the stack at 0xFFFC
C20_Witness ==
    /\ last.op = "CALL" /\ last.taken /\ last.before.pc = 256 /\ last.before.sp = 65534
    /\ cpu.registers.sp = 65532 /\ cpu.registers.pc = 1056
    /\ Memory_read(mem, 65532) = 3 /\ Memory_read(mem, 65533) = 1

\* C21: after RET, RETI or a taken RET cc, PC is the 16-bit value that was on
\* the stack (low byte at SP, high byte at SP+1) and SP is two higher.
C21_RetPopsPc ==
    (last.op = "RET" /\ last.taken) =>
        /\ cpu.registers.pc
             = Memory_read(last.mem, last.before.sp)
                 + 256 * Memory_read(last.mem, (last.before.sp + 1) % 65536)
        /\ cpu.registers.sp = (last.before.sp + 2) % 65536

\* C22: JR e8 or a taken JR cc,e8 at PC = P leaves PC = (P + 2 + e8) mod 2^16,
\* e8 read as a signed byte, and reports 3 M-cycles; an untaken JR cc,e8
\* leaves PC = P + 2 and reports 2 M-cycles.
C22_JrTarget ==
    last.op = "JR" =>
        IF last.taken
        THEN /\ cpu.registers.pc
                  = (last.before.pc + 2
                       + (IF last.n16 >= 128 THEN last.n16 - 256 ELSE last.n16)
                       + 65536) % 65536
             /\ last.cycles = 3
        ELSE /\ cpu.registers.pc = (last.before.pc + 2) % 65536
             /\ last.cycles = 2

---------------------------------------------------------------------------
(* Decoding: Cpu::execute on each opcode byte at PC *)

\* Executions explored
MaxDecodeOps == 2

\* Opcode bytes fetched: the modelled entries of the table and every byte past it
DecodeOpcodes == TableOpcodes \cup (INSTRUCTION_SET_LEN..255)

\* The opcode bytes no instruction is assigned to
UndefinedOpcodes == {211, 219, 221, 227, 228, 235, 236, 237, 244, 252, 253}

\* The closure written at an index of the table: the function it calls and its
\* register arguments (for the loads: the register copied from and the one
\* copied to, "[HL]" for the byte at HL)
Thunk(calls, src, dst) == [calls |-> calls, src |-> src, dst |-> dst]

\* Rows 1 to 3 of the table, indexes 0x00..0x2F
TableRows123 ==
    << Thunk("nop", "", ""), Thunk("load_n16_to_r16", "n16", "BC"),
       Thunk("load_a_to_immed_r16", "A", "BC"), Thunk("inc_r16", "BC", "BC"),
       Thunk("inc_r8", "B", "B"), Thunk("dec_r8", "B", "B"),
       Thunk("load_n8_to_r8", "n8", "B"), Thunk("rlca", "A", "A"),
       Thunk("load_sp_to_immed_n16", "SP", "n16"), Thunk("add_r16_to_hl", "BC", "HL"),
       Thunk("load_immed_r16_to_a", "BC", "A"), Thunk("dec_r16", "BC", "BC"),
       Thunk("inc_r8", "C", "C"), Thunk("dec_r8", "C", "C"),
       Thunk("load_n8_to_r8", "n8", "C"), Thunk("rrca", "A", "A"),
       Thunk("stop", "", ""), Thunk("load_n16_to_r16", "n16", "DE"),
       Thunk("load_a_to_immed_r16", "A", "DE"), Thunk("inc_r16", "DE", "DE"),
       Thunk("inc_r8", "D", "D"), Thunk("dec_r8", "D", "D"),
       Thunk("load_n8_to_r8", "n8", "D"), Thunk("rla", "A", "A"),
       Thunk("jr", "i16", "PC"), Thunk("add_r16_to_hl", "DE", "HL"),
       Thunk("load_immed_r16_to_a", "DE", "A"), Thunk("dec_r16", "DE", "DE"),
       Thunk("inc_r8", "E", "E"), Thunk("dec_r8", "E", "E"),
       Thunk("load_n8_to_r8", "n8", "E"), Thunk("rra", "A", "A"),
       Thunk("jr_cc", "NotZero", "PC"), Thunk("load_n16_to_r16", "n16", "DE"),
       Thunk("load_a_to_immed_r16", "A", "DE"), Thunk("inc_r16", "HL", "HL"),
       Thunk("inc_r8", "H", "H"), Thunk("dec_r8", "H", "H"),
       Thunk("load_n8_to_r8", "n8", "H"), Thunk("daa", "A", "A"),
       Thunk("jr_cc", "Zero", "PC"), Thunk("add_r16_to_hl", "HL", "HL"),
       Thunk("load_immed_r16_to_a", "DE", "A"), Thunk("dec_r16", "DE", "DE"),
       Thunk("inc_r8", "E", "E"), Thunk("dec_r8", "E", "E"),
       Thunk("load_n8_to_r8", "n8", "E"), Thunk("rra", "A", "A") >>

\* The operand order of the load block
LoadOperands == <<"B", "C", "D", "E", "H", "L", "[HL]", "A">>

\* Rows 4 to 7 of the table, the k-th entry after row 3: load_r8_to_r8(src, dst),
\* load_hl_to_r8(dst), load_r8_to_hl(src), and halt() where both would be [HL]
TableLoads(k) ==
    CASE k % 8 = 6 /\ k \div 8 = 6 -> Thunk("halt", "", "")
      [] k % 8 = 6 /\ k \div 8 # 6 -> Thunk("load_hl_to_r8", "[HL]", LoadOperands[(k \div 8) + 1])
      [] k % 8 # 6 /\ k \div 8 = 6 -> Thunk("load_r8_to_hl", LoadOperands[(k % 8) + 1], "[HL]")
      [] OTHER -> Thunk("load_r8_to_r8", LoadOperands[(k % 8) + 1],
                        LoadOperands[(k \div 8) + 1])

\* INSTRUCTION_SET[index]: rows 4 to 7 follow row 3 directly, at index 0x30
INSTRUCTION_SET_at(index) ==
    IF index < Len(TableRows123) THEN TableRows123[index + 1]
    ELSE TableLoads(index - Len(TableRows123))

\* A ROM of zeros with one opcode byte at the entry point
InitDecode ==
    /\ rom = "zeros"
    /\ overflow_checks \in BOOLEAN
    /\ cpu = Cpu_default
    /\ \E opcode \in 0..255 :
          mem = Memory_write(Memory_new, Cpu_default.registers.pc, opcode)
    /\ clock = Clock_new
    /\ ppu = [mode |-> "OAMScan"]
    /\ status = "running"
    /\ steps = 0
    /\ total_m_cycles = 0
    /\ last = [op |-> "boot", opcode |-> 0, outcome |-> "ok"]

\* self.cpu.execute(&mut self.mem).unwrap()
Execute ==
    /\ status = "running" /\ steps < MaxDecodeOps
    /\ cpu.registers.pc < rom_len
    /\ rom_byte(mem, cpu.registers.pc) \in DecodeOpcodes
    /\ steps' = steps + 1
    /\ Idle
    /\ \E ex \in {execute_table(cpu, mem)} :
          /\ last' = [op |-> "execute", opcode |-> rom_byte(mem, cpu.registers.pc),
                      outcome |-> ex.outcome]
          /\ IF ex.outcome = "ok"
             THEN status' = "running" /\ cpu' = ex.cpu /\ mem' = ex.mem
             ELSE status' = "panicked" /\ UNCHANGED <<cpu, mem>>

\* Cpu::execute up to `let instruction = INSTRUCTION_SET[opcode_byte as usize]`:
\* the opcode byte at PC and the table entry it selects
Lookup ==
    /\ status = "running" /\ steps < MaxDecodeOps
    /\ cpu.registers.pc < rom_len
    /\ last.op # "lookup"
    /\ steps' = steps + 1
    /\ Idle
    /\ UNCHANGED <<cpu, mem>>
    /\ \E opcode \in {rom_byte(mem, cpu.registers.pc)} :
          IF opcode < INSTRUCTION_SET_LEN
          THEN /\ status' = "running"
               /\ last' = [op |-> "lookup", opcode |-> opcode, outcome |-> "ok",
                           entry |-> INSTRUCTION_SET_at(opcode)]
          ELSE /\ status' = "panicked"
               /\ last' = [op |-> "lookup", opcode |-> opcode, outcome |-> "panic",
                           entry |-> Thunk("none", "", "")]

NextDecode == Execute \/ Lookup

SpecDecode == InitDecode /\ [][NextDecode]_vars

\* C23: executing one step on any opcode byte either runs the instruction
\* (outcome ok) or, for the undefined opcodes, returns an error (outcome err);
\* it never ends in a fault such as an out-of-range table index (outcome panic).
C23_DecodeTotal ==
    last.op = "execute" =>
        IF last.opcode \in UndefinedOpcodes
        THEN last.outcome = "err"
        ELSE last.outcome = "ok"

\* C39: the table entry at index op is the handler of opcode op: for op in
\* 0x40..0x7F other than 0x76 it is the load with dst = (op >> 3) & 7 and
\* src = op & 7 in the order B, C, D, E, H, L, [HL], A; entry 0x76 is HALT;
\* entries 0x21, 0x22, 0x2A, 0x2B operate on HL.
C39_TableIndexedByOpcode ==
    last.op = "lookup" =>
        /\ (last.opcode \in 64..127 /\ last.opcode # 118) =>
              /\ last.entry.calls \in {"load_r8_to_r8", "load_hl_to_r8", "load_r8_to_hl"}
              /\ last.entry.dst = LoadOperands[((last.opcode \div 8) % 8) + 1]
              /\ last.entry.src = LoadOperands[(last.opcode % 8) + 1]
        /\ last.opcode = 118 => last.entry.calls = "halt"
        /\ last.opcode \in {33, 34} => last.entry.dst = "HL"
        /\ last.opcode \in {42, 43} => last.entry.src = "HL"

---------------------------------------------------------------------------
(* The clock and the PPU step of the loop, under every instruction cost *)

\* M-cycles elapsed in all
MaxClockCycles == 300

\* M-cycle costs of one instruction
Costs == 1..6

\* LY when the exploration starts: the boot value, and lines before VBlank and
\* before the end of the frame, which the loop reaches after that many
\* scanline steps
ClockLines == {0, 142, 151}

InitClock ==
    /\ rom = "zeros"
    /\ overflow_checks \in BOOLEAN
    /\ cpu = Cpu_default
    /\ \E ly \in ClockLines :
          /\ mem = Memory_write(Memory_new, LY, ly)
          /\ last = [op |-> "boot", cycles |-> 0, start_ly |-> ly, ly_before |-> ly,
                     if_before |-> Memory_read(Memory_new, INTERRUPT_FLAG),
                     requested |-> FALSE]
    /\ clock = Clock_new
    /\ ppu = [mode |-> "OAMScan"]
    /\ status = "running"
    /\ steps = 0
    /\ total_m_cycles = 0

\* System::run with an instruction of `cycles` M-cycles and IME clear:
\* m_cycles += cycles, Clock::tick, then the PPU step
TickLoop ==
    /\ status = "running"
    /\ total_m_cycles < MaxClockCycles
    /\ ~cpu.ime
    /\ UNCHANGED <<cpu, overflow_checks, rom, steps>>
    /\ \E cycles \in Costs :
       \E t \in {Clock_tick([clock EXCEPT !.m_cycles = @ + cycles], mem)} :
       \E p \in {run_ppu(t.clock, ppu, t.mem)} :
          IF overflow_checks /\ t.ovf
          THEN /\ status' = "panicked"
               /\ UNCHANGED <<mem, clock, ppu, total_m_cycles, last>>
          ELSE /\ status' = "running"
               /\ mem' = p.mem
               /\ clock' = p.clock
               /\ ppu' = p.ppu
               /\ total_m_cycles' = total_m_cycles + cycles
               /\ last' = [op |-> "tick", cycles |-> cycles, start_ly |-> last.start_ly,
                           ly_before |-> Memory_read(mem, LY),
                           if_before |-> Memory_read(mem, INTERRUPT_FLAG),
                           requested |-> clock.m_cycles + cycles > 143]

NextClock == TickLoop

SpecClock == InitClock /\ [][NextClock]_vars

\* C26: LY advances by one for every 456 dots (114 M-cycles) elapsed on the
\* clock, running 0..153 and then wrapping to 0, whatever the costs of the
\* instructions executed.
C26_ScanlineEvery456Dots ==
    Memory_read(mem, LY) = (last.start_ly + ((total_m_cycles * 4) \div 456)) % 154

\* C27: when LY goes from 143 to 144 the PPU mode is VerticalBlank and bit 0
\* of IF is set, and the clock requests VBlank on that transition and at no
\* other tick.
C27_VBlankEntry ==
    last.op = "tick" =>
        /\ (last.ly_before = 143 /\ Memory_read(mem, LY) = 144)
              => /\ ppu.mode = "VerticalBlank"
                 /\ Bit(Memory_read(mem, INTERRUPT_FLAG), 0) = 1
                 /\ last.requested
        /\ last.requested => (last.ly_before = 143 /\ Memory_read(mem, LY) = 144)

---------------------------------------------------------------------------
(* The frame: the loop running without end from boot, under every mix of *)
(* instruction costs                                                     *)

InitFrame ==
    /\ rom = "zeros"
    /\ overflow_checks \in BOOLEAN
    /\ cpu = Cpu_default
    /\ mem = Memory_new
    /\ clock = Clock_new
    /\ ppu = [mode |-> "OAMScan"]
    /\ status = "running"
    /\ steps = 0
    /\ total_m_cycles = 0
    /\ last = [op |-> "boot", requested |-> FALSE]

\* System::run with an instruction of `cycles` M-cycles and IME clear:
\* m_cycles += cycles, Clock::tick, then the PPU step; the loop has no exit
\* but the quit event
TickFrame ==
    /\ status = "running"
    /\ ~cpu.ime
    /\ lcd_ppu_enable(mem)
    /\ UNCHANGED <<cpu, overflow_checks, rom, steps, total_m_cycles>>
    /\ \E cycles \in Costs :
       \E t \in {Clock_tick([clock EXCEPT !.m_cycles = @ + cycles], mem)} :
       \E p \in {run_ppu(t.clock, ppu, t.mem)} :
          IF overflow_checks /\ t.ovf
          THEN /\ status' = "panicked"
               /\ UNCHANGED <<mem, clock, ppu, last>>
          ELSE /\ status' = "running"
               /\ mem' = p.mem
               /\ clock' = p.clock
               /\ ppu' = p.ppu
               /\ last' = [op |-> "tick", requested |-> clock.m_cycles + cycles > 143]

NextFrame == TickFrame

\* The loop keeps iterating: an iteration that can be taken is taken
SpecFrame == InitFrame /\ [][NextFrame]_vars /\ WF_vars(TickFrame)

\* C40: with the LCD enabled, whatever the instruction costs, LY reaches 144
\* again and again, a VBlank request is raised again and again, and LY returns
\* to 0 again and again.
C40_FrameProgress ==
    /\ []<>(Memory_read(mem, LY) = 144)
    /\ []<>(last.op = "tick" /\ last.requested)
    /\ []<>(Memory_read(mem, LY) = 0)

---------------------------------------------------------------------------
(* Bit operations: BIT / RES / SET, the CB-prefixed rotates and shifts, CPL *)
(* and LDH, on a byte in B, a byte at [HL] and the accumulator              *)

\* Operations explored
MaxCbOps == 2

\* Operand bytes: both ends, single bits at either end, alternating bits
CbBytes == {0, 1, 85, 128, 170, 255}

\* Flags found by an operation
CbFlags ==
    {Flags_clear, Flags_default,
     [zero |-> FALSE, subtraction |-> TRUE, half_carry |-> FALSE, carry |-> TRUE],
     [zero |-> TRUE, subtraction |-> TRUE, half_carry |-> TRUE, carry |-> FALSE]}

\* The high-page addresses given to LDH
LdhAddrs == {65280, 65408, 65535}

\* The two forms of an operation: on register B, on the byte at [HL]
Forms == {"r8", "hl"}

ShiftOps == {"RL", "RLC", "RR", "RRC", "SLA", "SRA", "SRL", "SWAP"}

\* The r8 form and the [HL] form of a CB-prefixed rotate or shift
cb_r8(op, r8, c, m) ==
    CASE op = "RL" -> rl_r8(r8, c, m)
      [] op = "RLC" -> rlc_r8(r8, c, m)
      [] op = "RR" -> rr_r8(r8, c, m)
      [] op = "RRC" -> rrc_r8(r8, c, m)
      [] op = "SLA" -> sla_r8(r8, c, m)
      [] op = "SRA" -> sra_r8(r8, c, m)
      [] op = "SRL" -> srl_r8(r8, c, m)
      [] op = "SWAP" -> swap_r8(r8, c, m)
cb_hl(op, c, m) ==
    CASE op = "RL" -> rl_hl(c, m)
      [] op = "RLC" -> rlc_hl(c, m)
      [] op = "RR" -> rr_hl(c, m)
      [] op = "RRC" -> rrc_hl(c, m)
      [] op = "SLA" -> sla_hl(c, m)
      [] op = "SRA" -> sra_hl(c, m)
      [] op = "SRL" -> srl_hl(c, m)
      [] op = "SWAP" -> swap_hl(c, m)

\* The operand of a form in cpu c and memory m
OperandOf(form, c, m) ==
    IF form = "r8" THEN get_r8(c.registers, "B") ELSE Memory_read(m, c.registers.hl)

\* The history of an operation: its form, bit number or address, the cpu and
\* memory it found, its operand, and the operation before it with the A it found
CbOp(op, form, n) ==
    [op |-> op, form |-> form, n |-> n, before |-> cpu, mem |-> mem,
     operand |-> OperandOf(form, cpu, mem),
     prev_op |-> last.op, prev_a |-> last.before.registers.a]

\* A and B loaded with one byte, HL pointing at another in work RAM (0xC000), flags as an earlier
\* instruction left them
InitCb ==
    /\ rom = "zeros"
    /\ overflow_checks \in BOOLEAN
    /\ \E x \in CbBytes, y \in CbBytes, flags \in CbFlags :
          /\ cpu = [Cpu_default EXCEPT
                      !.registers = [set_r16(set_r8(set_r8(@, "A", x), "B", x), "HL", 49152)
                                       EXCEPT !.flags = flags]]
          /\ mem = Memory_write(Memory_new, 49152, y)
    /\ clock = Clock_new
    /\ ppu = [mode |-> "OAMScan"]
    /\ status = "running"
    /\ steps = 0
    /\ total_m_cycles = 0
    /\ last = [op |-> "boot", form |-> "r8", n |-> 0, before |-> cpu, mem |-> mem,
               operand |-> 0, prev_op |-> "boot", prev_a |-> 0]

\* BIT u3,B and BIT u3,[HL]
BitU3 ==
    /\ status = "running" /\ steps < MaxCbOps
    /\ \E u3 \in 0..7, form \in Forms :
          Handled(IF form = "r8" THEN bit_u3_r8(u3, "B", cpu, mem)
                  ELSE bit_u3_hl(u3, cpu, mem),
                  CbOp("BIT", form, u3))

\* RES u3,B and RES u3,[HL]
ResU3 ==
    /\ status = "running" /\ steps < MaxCbOps
    /\ \E u3 \in 0..7, form \in Forms :
          Handled(IF form = "r8" THEN res_u3_r8(u3, "B", cpu, mem)
                  ELSE res_u3_hl(u3, cpu, mem),
                  CbOp("RES", form, u3))

\* SET u3,B and SET u3,[HL]
SetU3 ==
    /\ status = "running" /\ steps < MaxCbOps
    /\ \E u3 \in 0..7, form \in Forms :
          Handled(IF form = "r8" THEN set_u3_r8(u3, "B", cpu, mem)
                  ELSE set_u3_hl(u3, cpu, mem),
                  CbOp("SET", form, u3))

\* A rotate or shift on B or on [HL]
Shift(op) ==
    /\ status = "running" /\ steps < MaxCbOps
    /\ \E form \in Forms :
          Handled(IF form = "r8" THEN cb_r8(op, "B", cpu, mem) ELSE cb_hl(op, cpu, mem),
                  CbOp(op, form, 0))

Rl == Shift("RL")
Rlc == Shift("RLC")
Rr == Shift("RR")
Rrc == Shift("RRC")
Sla == Shift("SLA")
Sra == Shift("SRA")
Srl == Shift("SRL")
Swap == Shift("SWAP")

\* CPL
Cpl ==
    /\ status = "running" /\ steps < MaxCbOps
    /\ Handled(cpl(cpu, mem), CbOp("CPL", "r8", 0))

\* LDH [n16],A
LdhStore ==
    /\ status = "running" /\ steps < MaxCbOps
    /\ \E n16 \in LdhAddrs :
          Handled(ldh_immed_n16_a(n16, cpu, mem), CbOp("LDH [n16],A", "r8", n16))

\* LDH A,[n16]
LdhLoad ==
    /\ status = "running" /\ steps < MaxCbOps
    /\ \E n16 \in LdhAddrs :
          Handled(ldh_a_immed_n16(n16, cpu, mem), CbOp("LDH A,[n16]", "r8", n16))

NextCb ==
    \/ BitU3 \/ ResU3 \/ SetU3
    \/ Rl \/ Rlc \/ Rr \/ Rrc \/ Sla \/ Sra \/ Srl \/ Swap
    \/ Cpl \/ LdhStore \/ LdhLoad

SpecCb == InitCb /\ [][NextCb]_vars

\* C31: BIT u3 sets Z iff bit u3 of the operand is 0, clears N, sets H, and
\* leaves C and the operand as they were.
C31_BitTest ==
    last.op = "BIT" =>
        /\ cpu.registers.flags.zero = (Bit(last.operand, last.n) = 0)
        /\ ~cpu.registers.flags.subtraction
        /\ cpu.registers.flags.half_carry
        /\ cpu.registers.flags.carry = last.before.registers.flags.carry
        /\ OperandOf(last.form, cpu, mem) = last.operand

\* C32: after RES u3 bit u3 of the operand is 0, the other bits are as they
\* were, and the flags are unchanged.
C32_ResClearsBit ==
    last.op = "RES" =>
        /\ OperandOf(last.form, cpu, mem)
             = last.operand - Bit(last.operand, last.n) * (2 ^ last.n)
        /\ cpu.registers.flags = last.before.registers.flags

\* C33: SLA leaves (x << 1) & 0xFF, carry = bit 7 of x, Z iff the result is
\* 0, N and H clear.
C33_Sla ==
    last.op = "SLA" =>
        /\ OperandOf(last.form, cpu, mem) = (last.operand * 2) % 256
        /\ cpu.registers.flags.carry = (Bit(last.operand, 7) = 1)
        /\ cpu.registers.flags.zero = ((last.operand * 2) % 256 = 0)
        /\ ~cpu.registers.flags.subtraction
        /\ ~cpu.registers.flags.half_carry

\* What the other form of the operation leaves for the operand and carry that
\* the operation found
OtherForm ==
    IF last.form = "r8"
    THEN cb_hl(last.op, last.before,
               Memory_write(last.mem, last.before.registers.hl, last.operand))
    ELSE cb_r8(last.op, "B",
               [last.before EXCEPT !.registers = set_r8(@, "B", last.operand)], last.mem)

\* C34: a CB-prefixed rotate, shift or swap leaves the result byte and flags
\* that its other form (r8 for [HL], [HL] for r8) leaves for the same operand
\* and incoming carry, and SRL leaves bit 0 of the operand in the carry.
C34_FormsAgree ==
    last.op \in ShiftOps =>
        /\ OperandOf(last.form, cpu, mem)
             = OperandOf(IF last.form = "r8" THEN "hl" ELSE "r8",
                         OtherForm.cpu, OtherForm.mem)
        /\ cpu.registers.flags = OtherForm.cpu.registers.flags
        /\ last.op = "SRL" => cpu.registers.flags.carry = (Bit(last.operand, 0) = 1)

\* C35: CPL leaves A XOR 0xFF in A, sets N and H, leaves Z and C, and a second
\* CPL right after restores A.
C35_Cpl ==
    last.op = "CPL" =>
        /\ cpu.registers.a = 255 - last.before.registers.a
        /\ cpu.registers.flags.subtraction /\ cpu.registers.flags.half_carry
        /\ cpu.registers.flags.zero = last.before.registers.flags.zero
        /\ cpu.registers.flags.carry = last.before.registers.flags.carry
        /\ last.prev_op = "CPL" => cpu.registers.a = last.prev_a

\* C36: LDH [n16],A with n16 in 0xFF00..0xFFFF stores A at n16 and leaves A;
\* LDH A,[n16] loads the byte at n16 into A and into the high byte of AF.
C36_LdhRoundTrip ==
    /\ last.op = "LDH [n16],A" =>
          /\ Memory_read(mem, last.n) = last.before.registers.a
          /\ cpu.registers.a = last.before.registers.a
    /\ last.op = "LDH A,[n16]" =>
          /\ cpu.registers.a = Memory_read(last.mem, last.n)
          /\ cpu.registers.af \div 256 = cpu.registers.a

---------------------------------------------------------------------------
(* Instruction lengths: handlers that are not control transfers, from several *)
(* program counters                                                           *)

\* Instructions explored
MaxLenOps == 2

\* Program counters: the entry point, mid-ROM, the last bytes of the address space
LenPcs == {256, 32768, 65533, 65535}

\* Immediate bytes
LenBytes == {0, 1, 255}

\* The history of an instruction: PC when it was fetched, the byte length the
\* handler reported and the length of its encoding (1: opcode alone, 2: with an
\* n8 or a CB prefix, 3: with an n16)
LenOp(r, op, length) ==
    [op |-> op, pc |-> cpu.registers.pc, bytes |-> r.bytes, length |-> length]

InitLen ==
    /\ rom = "zeros"
    /\ overflow_checks \in BOOLEAN
    /\ \E pc \in LenPcs : cpu = [Cpu_default EXCEPT !.registers.pc = pc]
    /\ mem = Memory_new
    /\ clock = Clock_new
    /\ ppu = [mode |-> "OAMScan"]
    /\ status = "running"
    /\ steps = 0
    /\ total_m_cycles = 0
    /\ last = [op |-> "boot", pc |-> 0, bytes |-> 0, length |-> 0]

\* NOP (0x00)
LenNop ==
    /\ status = "running" /\ steps < MaxLenOps
    /\ \E r \in {nop(cpu, mem)} : Handled(r, LenOp(r, "NOP", 1))

\* DAA (0x27)
LenDaa ==
    /\ status = "running" /\ steps < MaxLenOps
    /\ \E r \in {daa(cpu, mem)} : Handled(r, LenOp(r, "DAA", 1))

\* ADD A,r8 (0x80..0x87)
LenAddAR8 ==
    /\ status = "running" /\ steps < MaxLenOps
    /\ \E r8 \in {"B", "C"} :
       \E r \in {add_a_r8(r8, cpu, mem)} : Handled(r, LenOp(r, "ADD A,r8", 1))

\* ADD A,n8 (0xC6 n8)
LenAddAN8 ==
    /\ status = "running" /\ steps < MaxLenOps
    /\ \E n8 \in LenBytes :
       \E r \in {add_a_n8(n8, cpu, mem)} : Handled(r, LenOp(r, "ADD A,n8", 2))

\* LD r8,n8 (0x06 n8, ...)
LenLdR8N8 ==
    /\ status = "running" /\ steps < MaxLenOps
    /\ \E r8 \in {"B", "C"}, n8 \in LenBytes :
       \E r \in {ld_r8_n8(r8, n8, cpu, mem)} : Handled(r, LenOp(r, "LD r8,n8", 2))

\* LD r16,n16 (0x01 n16, ...)
LenLdR16N16 ==
    /\ status = "running" /\ steps < MaxLenOps
    /\ \E n16 \in {4660, 49152} :
       \E r \in {ld_r16_n16("HL", n16, cpu, mem)} : Handled(r, LenOp(r, "LD r16,n16", 3))

\* LD [HL],r8 (0x70..0x77)
LenLdR8Hl ==
    /\ status = "running" /\ steps < MaxLenOps
    /\ \E r8 \in {"B", "C"} :
       \E r \in {ld_r8_hl(r8, cpu, mem)} : Handled(r, LenOp(r, "LD [HL],r8", 1))

\* LD r8,[HL] (0x46, 0x4E, ...)
LenLdHlR8 ==
    /\ status = "running" /\ steps < MaxLenOps
    /\ \E r8 \in {"B", "C"} :
       \E r \in {ld_hl_r8(r8, cpu, mem)} : Handled(r, LenOp(r, "LD r8,[HL]", 1))

\* RL r8 (0xCB 0x10..0x17)
LenRlR8 ==
    /\ status = "running" /\ steps < MaxLenOps
    /\ \E r8 \in {"B", "C"} :
       \E r \in {rl_r8(r8, cpu, mem)} : Handled(r, LenOp(r, "RL r8", 2))

NextLen ==
    \/ LenNop \/ LenDaa \/ LenAddAR8 \/ LenAddAN8 \/ LenLdR8N8 \/ LenLdR16N16
    \/ LenLdR8Hl \/ LenLdHlR8 \/ LenRlR8

SpecLen == InitLen /\ [][NextLen]_vars

\* C37: an instruction that is not a control transfer leaves PC at the address
\* it was fetched from plus the length of its encoding, and reports that length.
C37_PcAdvancesByLength ==
    last.op # "boot" =>
        /\ cpu.registers.pc = (last.pc + last.length) % U16
        /\ last.bytes = last.length

---------------------------------------------------------------------------
(* Cartridges: Cartridge::new on ROM images of several lengths and headers *)

\* Cartridges parsed
MaxCartOps == 1

\* Image lengths: shorter than the header, the header alone, 32 KiB
CartLens == {256, 336, 32768}

\* Header bytes: known to all three conversions, known to some, known to none
HeaderBytes == {0, 1, 4, 6, 9, 84, 255}

\* Memory::default() with no ROM loaded: the image is "none"
InitCart ==
    /\ rom = "none"
    /\ overflow_checks \in BOOLEAN
    /\ cpu = Cpu_default
    /\ mem = Memory_new
    /\ clock = Clock_new
    /\ ppu = [mode |-> "OAMScan"]
    /\ status = "running"
    /\ steps = 0
    /\ total_m_cycles = 0
    /\ last = [op |-> "boot", len |-> 0, cartridge_type |-> 0, rom_size |-> 0,
               ram_size |-> 0, outcome |-> "Ok", byte |-> 0]

\* Cartridge::new(rom, &mut mem) on the image `body` with its three header bytes
\* set and cut to `len` bytes; a copied ROM is the image with those bytes over it
LoadCartridge ==
    /\ status = "running" /\ steps < MaxCartOps /\ rom = "none"
    /\ steps' = steps + 1
    /\ UNCHANGED <<cpu, clock, ppu, overflow_checks, total_m_cycles>>
    /\ \E body \in DataImages, len \in CartLens, cartridge_type \in HeaderBytes,
          rom_size \in HeaderBytes, ram_size \in HeaderBytes :
          \E r \in {Cartridge_new(len, cartridge_type, rom_size, ram_size)} :
             /\ last' = [op |-> "Cartridge::new", len |-> len,
                         cartridge_type |-> cartridge_type, rom_size |-> rom_size,
                         ram_size |-> ram_size, outcome |-> r.outcome, byte |-> r.byte]
             /\ status' = CASE r.outcome = "Ok" -> "running"
                             [] r.outcome = "panic" -> "panicked"
                             [] OTHER -> "quit"
             /\ rom' = IF r.copied THEN body ELSE rom
             /\ mem' = IF r.copied
                       THEN [mem EXCEPT !.block =
                               [a \in {x \in {ROM_SIZE, RAM_SIZE} :
                                         RomByte(body, x) #
                                           (IF x = ROM_SIZE THEN rom_size ELSE ram_size)}
                                  |-> IF a = ROM_SIZE THEN rom_size ELSE ram_size]]
                       ELSE mem

NextCart == LoadCartridge

SpecCart == InitCart /\ [][NextCart]_vars

\* C25: parsing never crashes; an image too short to hold the header bytes
\* gives Truncated; otherwise an unknown byte at 0x147 gives
\* InvalidHardware(byte), else an unknown byte at 0x148 gives
\* InvalidRomSize(byte), else an unknown byte at 0x149 gives
\* InvalidRamSize(byte); and on any error no ROM is copied into memory.
C25_CartridgeErrors ==
    last.op = "Cartridge::new" =>
        /\ last.outcome # "panic"
        /\ last.len <= RAM_SIZE => last.outcome = "Truncated"
        /\ (last.len > RAM_SIZE /\ last.cartridge_type \notin CartridgeType_bytes)
              => (last.outcome = "InvalidHardware" /\ last.byte = last.cartridge_type)
        /\ (last.len > RAM_SIZE /\ last.cartridge_type \in CartridgeType_bytes
               /\ last.rom_size \notin RomSize_bytes)
              => (last.outcome = "InvalidRomSize" /\ last.byte = last.rom_size)
        /\ (last.len > RAM_SIZE /\ last.cartridge_type \in CartridgeType_bytes
               /\ last.rom_size \in RomSize_bytes /\ last.ram_size \notin RamSize_bytes)
              => (last.outcome = "InvalidRamSize" /\ last.byte = last.ram_size)
        /\ last.outcome # "Ok" => (rom = "none" /\ mem = Memory_new)

\* Addresses read back: the ends of both ROM banks and the entry point
RomProbes == {0, 256, 16382, 16383, 16384, 32766, 32767}

\* C38: after a ROM-only image has been loaded, a read of an address in
\* 0x0000..0x7FFF gives that byte of the image, the last byte of each bank
\* included, and the slice instructions are fetched from is 32 KiB long.
C38_RomReadable ==
    (last.op = "Cartridge::new" /\ last.outcome = "Ok" /\ last.cartridge_type = 0) =>
        /\ \A a \in RomProbes : Memory_read(mem, a) = RomByte(rom, a)
        /\ rom_len = 32768

---------------------------------------------------------------------------
(* A and the flags: PUSH AF, POP AF, Flags::set, Into<u8> for Flags *)

\* Operations explored
MaxAfOps == 2

\* Values of A
AfBytes == {0, 1, 18, 128, 255}

\* Bytes given to Flags::set: every high nibble, with a clear and a set low nibble
FlagBytes == {16 * h + l : h \in 0..15, l \in {0, 15}}

\* Every combination of the four flags
AllFlags == [zero : BOOLEAN, subtraction : BOOLEAN, half_carry : BOOLEAN, carry : BOOLEAN]

\* Z<<7 | N<<6 | H<<5 | C<<4
FlagByte(flags) ==
    B2N(flags.zero) * 128 + B2N(flags.subtraction) * 64
      + B2N(flags.half_carry) * 32 + B2N(flags.carry) * 16

\* The history of an operation: A, the flags and SP before it, the byte given
\* to or produced by a conversion, and whether a PUSH AF came right before
AfOp(op, byte, after_push) ==
    [op |-> op, a |-> cpu.registers.a, flags |-> cpu.registers.flags,
     sp |-> cpu.registers.sp, byte |-> byte, after_push |-> after_push]

\* The boot state with A loaded (set_r8) and the flags as an instruction that
\* assigns the flag fields leaves them
InitAf ==
    /\ rom = "zeros"
    /\ overflow_checks \in BOOLEAN
    /\ \E a \in AfBytes, flags \in AllFlags :
          cpu = [Cpu_default EXCEPT !.registers =
                    [set_r8(@, "A", a) EXCEPT !.flags = flags]]
    /\ mem = Memory_new
    /\ clock = Clock_new
    /\ ppu = [mode |-> "OAMScan"]
    /\ status = "running"
    /\ steps = 0
    /\ total_m_cycles = 0
    /\ last = [op |-> "boot", a |-> 0, flags |-> Flags_clear, sp |-> 0, byte |-> 0,
               after_push |-> FALSE]

\* PUSH AF
PushAf ==
    /\ status = "running" /\ steps < MaxAfOps
    /\ Handled(push_af(cpu, mem), AfOp("PUSH", 0, FALSE))

\* POP AF
PopAf ==
    /\ status = "running" /\ steps < MaxAfOps
    /\ Handled(pop_af(cpu, mem),
               [op |-> "POP", a |-> last.a, flags |-> last.flags, sp |-> last.sp,
                byte |-> 0, after_push |-> last.op = "PUSH"])

\* cpu.registers.flags.set(value)
FlagsSet ==
    /\ status = "running" /\ steps < MaxAfOps
    /\ \E value \in FlagBytes :
          Handled(Step([cpu EXCEPT !.registers.flags = Flags_set(value)], mem, FALSE),
                  AfOp("set", value, FALSE))

\* let byte: u8 = cpu.registers.flags.into()
FlagsInto ==
    /\ status = "running" /\ steps < MaxAfOps
    /\ Handled(Step(cpu, mem, FALSE),
               AfOp("into", Flags_into_u8(cpu.registers.flags), FALSE))

NextAf == PushAf \/ PopAf \/ FlagsSet \/ FlagsInto

SpecAf == InitAf /\ [][NextAf]_vars

\* C29: PUSH AF stores A at SP-1 and Z<<7 | N<<6 | H<<5 | C<<4 at SP-2, and a
\* POP AF right after it restores A, the four flags and SP.
C29_PushPopAf ==
    /\ last.op = "PUSH" =>
          /\ Memory_read(mem, (last.sp + U16 - 1) % U16) = last.a
          /\ Memory_read(mem, (last.sp + U16 - 2) % U16) = FlagByte(last.flags)
    /\ (last.op = "POP" /\ last.after_push) =>
          /\ cpu.registers.a = last.a
          /\ cpu.registers.flags = last.flags
          /\ cpu.registers.sp = last.sp

\* C30: the flags set from a byte v convert back to v & 0xF0, and the byte a
\* flag combination converts to sets that same combination.
C30_FlagsRoundTrip ==
    /\ last.op = "set" => Flags_into_u8(cpu.registers.flags) = BitAnd(last.byte, 240)
    /\ last.op = "into" => Flags_set(last.byte) = last.flags

---------------------------------------------------------------------------
(* The stack: LD SP,n16, LD r16,n16, PUSH r16, POP r16 *)

\* Stack operations explored
MaxStackOps == 4

\* Stack pointers and words loaded
StackPointers == {65534, 49152, 1}
StackWords == {4660, 65280, 255}
StackRegs == {"BC", "DE", "HL"}

\* The history of a stack operation: for PUSH the word pushed and SP before
\* it; for POP the target, whether a PUSH came right before, and that PUSH's
\* word and SP
StackOp(op, r16, n, sp, after_push) ==
    [op |-> op, r16 |-> r16, n |-> n, sp |-> sp, after_push |-> after_push]

InitStack ==
    /\ rom = "zeros"
    /\ overflow_checks \in BOOLEAN
    /\ cpu = Cpu_default
    /\ mem = Memory_new
    /\ clock = Clock_new
    /\ ppu = [mode |-> "OAMScan"]
    /\ status = "running"
    /\ steps = 0
    /\ total_m_cycles = 0
    /\ last = StackOp("boot", "SP", 0, 0, FALSE)

\* LD SP,n16
LoadSp ==
    /\ status = "running" /\ steps < MaxStackOps
    /\ \E n16 \in StackPointers :
          Handled(load_sp_n16(n16, cpu, mem), StackOp("LD", "SP", 0, 0, FALSE))

\* LD r16,n16
LoadR16 ==
    /\ status = "running" /\ steps < MaxStackOps
    /\ \E r16 \in StackRegs, n16 \in StackWords :
          Handled(ld_r16_n16(r16, n16, cpu, mem), StackOp("LD", r16, 0, 0, FALSE))

\* PUSH r16
Push ==
    /\ status = "running" /\ steps < MaxStackOps
    /\ \E r16 \in StackRegs :
          Handled(push_r16(r16, cpu, mem),
                  StackOp("PUSH", r16, get_r16(cpu.registers, r16),
                          cpu.registers.sp, FALSE))

\* POP r16
Pop ==
    /\ status = "running" /\ steps < MaxStackOps
    /\ \E r16 \in StackRegs :
          Handled(pop_r16(r16, cpu, mem),
                  StackOp("POP", r16, last.n, last.sp, last.op = "PUSH"))

NextStack == LoadSp \/ LoadR16 \/ Push \/ Pop

SpecStack == InitStack /\ [][NextStack]_vars

\* C10: PUSH of a word n stores its high byte at SP-1 and its low byte at SP-2
\* and leaves SP-2 in SP; a POP r16 (BC, DE, HL) right after it yields
\* r16 = n, both halves updated, and SP as it was before the PUSH.
C10_PushPopRoundTrip ==
    /\ last.op = "PUSH" =>
          /\ cpu.registers.sp = (last.sp + U16 - 2) % U16
          /\ Memory_read(mem, (last.sp + U16 - 1) % U16) = last.n \div 256
          /\ Memory_read(mem, (last.sp + U16 - 2) % U16) = last.n % 256
    /\ (last.op = "POP" /\ last.after_push) =>
          /\ get_r16(cpu.registers, last.r16) = last.n
          /\ get_r8(cpu.registers, CASE last.r16 = "BC" -> "B"
                                     [] last.r16 = "DE" -> "D"
                                     [] last.r16 = "HL" -> "H") = last.n \div 256
          /\ get_r8(cpu.registers, CASE last.r16 = "BC" -> "C"
                                     [] last.r16 = "DE" -> "E"
                                     [] last.r16 = "HL" -> "L") = last.n % 256
          /\ cpu.registers.sp = last.sp

\* A word with two different bytes was pushed from one register and popped
\* into another right after
C10_Witness ==
    /\ last.op = "POP" /\ last.after_push
    /\ last.n = 4660
    /\ last.r16 = "DE"
    /\ cpu.registers.bc = 4660

====
